---- MODULE Spec2Model ----
(***************************************************************************)
(* mpx-scan: the scan orchestrator (src/index.js), its connectivity        *)
(* preflight, the per-scanner deadline race, Promise.all collection, the   *)
(* score aggregation and calculateGrade.                                   *)
(*                                                                         *)
(* Raw scanner scores are multiples of 0.25 in the scanners; they are held *)
(* here as integers counting quarter points (score 11.5 is 46).  A         *)
(* normalised score is the exact fraction <<num, den>>; a displayed score  *)
(* (Math.round(x * 10) / 10) is an integer counting tenths.                *)
(***************************************************************************)
EXTENDS Integers, Sequences, FiniteSets, TLC

VARIABLES
  pc,              \* position of scan(): "idle", "preflight", "running", "done", "threw"
  thrown,          \* the error scan() rejected with, or NoError
  target,          \* parsedUrl: [protocol |-> ...], or NoTarget
  options,         \* the options argument, held while scan() awaits the preflight
  preflight,       \* checkConnectivity's promise: "unsent", "sent", or the event that settled it
  enabledScanners, \* enabledScanners: sequence of [name, weight]
  probe,           \* per scanner name: state of the promise returned by scanner.fn
  timer,           \* per scanner name: state of the setTimeout of timeoutPromise
  values,          \* Promise.all's values array, NoResult where not yet stored
  results,         \* the Report scan() returned, or NoReport
  reordered,       \* history: some wrapper returned while an earlier-declared one was pending
  ratio,           \* argument of a stand-alone calculateGrade call (GradeSpec)
  grade,           \* result of that call, or NoGrade
  license,         \* tier of ~/.mpx-scan/license.json as getLicense reads it
  usage,           \* ~/.mpx-scan/usage.json: [scans, lastReset], dates as day numbers
  today,           \* the current date, as a day number
  req,             \* per request: a CLI run or an MCP tool call and how far it got
  call,            \* argument of a stand-alone call of a scanner helper
  ret              \* result of that call, or NoRet

vars == <<pc, thrown, target, options, preflight, enabledScanners, probe, timer, values, results, reordered, ratio, grade,
          license, usage, today, req, call, ret>>

entryVars == <<license, usage, today, req>>

callVars == <<call, ret>>

scanVars == <<pc, thrown, target, options, preflight, enabledScanners, probe, timer, values, results, reordered>>

NoError == "none"
NoGrade == "none"
NoRatio == <<0, 1>>
NoTarget == [protocol |-> "none"]
NoOptions == [tier |-> "", full |-> FALSE]
NoResult == [state |-> "pending"]
NoReport == [state |-> "none"]

----------------------------------------------------------------------------
(* Static tables of index.js *)

allScanners ==
  << [name |-> "headers",      weight |-> 15],
     [name |-> "ssl",          weight |-> 20],
     [name |-> "cookies",      weight |-> 10],
     [name |-> "server",       weight |-> 8],
     [name |-> "exposedFiles", weight |-> 10],
     [name |-> "dns",          weight |-> 7],
     [name |-> "sri",          weight |-> 5],
     [name |-> "mixedContent", weight |-> 5],
     [name |-> "redirects",    weight |-> 5] >>

SCANNER_TIERS ==
  [ free |-> <<"headers", "ssl", "server">>,
    pro  |-> <<"headers", "ssl", "cookies", "server", "exposedFiles",
               "dns", "sri", "mixedContent", "redirects">> ]

ScannerNames == { allScanners[i].name : i \in DOMAIN allScanners }

Range(s) == { s[i] : i \in DOMAIN s }

\* options.tier || 'free'; the empty string stands for an absent tier
TierOf(opts) == IF opts.tier = "" THEN "free" ELSE opts.tier

\* variant: the full option is ignored
AllowedScanners_TierOnly(opts) ==
  IF TierOf(opts) \in DOMAIN SCANNER_TIERS THEN SCANNER_TIERS[TierOf(opts)]
  ELSE SCANNER_TIERS.free

\* options.full ? SCANNER_TIERS.pro : (SCANNER_TIERS[tier] || SCANNER_TIERS.free)
AllowedScanners(opts) ==
  IF opts.full THEN SCANNER_TIERS.pro
  ELSE IF TierOf(opts) \in DOMAIN SCANNER_TIERS THEN SCANNER_TIERS[TierOf(opts)]
  ELSE SCANNER_TIERS.free

\* allScanners.filter(s => allowedScanners.includes(s.name))
EnabledScanners(opts) ==
  SelectSeq(allScanners, LAMBDA s : s.name \in Range(AllowedScanners(opts)))

----------------------------------------------------------------------------
(* calculateGrade on an exact ratio <<num, den>>, den > 0 *)

\* variant: the A+ threshold is exclusive
calculateGrade_Exclusive(r) ==
  IF r[1] * 100 > 95 * r[2] THEN "A+"
  ELSE IF r[1] * 100 >= 85 * r[2] THEN "A"
  ELSE IF r[1] * 100 >= 70 * r[2] THEN "B"
  ELSE IF r[1] * 100 >= 55 * r[2] THEN "C"
  ELSE IF r[1] * 100 >= 40 * r[2] THEN "D"
  ELSE "F"

calculateGrade(r) ==
  IF r[1] * 100 >= 95 * r[2] THEN "A+"
  ELSE IF r[1] * 100 >= 85 * r[2] THEN "A"
  ELSE IF r[1] * 100 >= 70 * r[2] THEN "B"
  ELSE IF r[1] * 100 >= 55 * r[2] THEN "C"
  ELSE IF r[1] * 100 >= 40 * r[2] THEN "D"
  ELSE "F"

\* Math.round(x * 10) of the non-negative fraction x = f[1] / f[2], in tenths
Round10(f) == (20 * f[1] + f[2]) \div (2 * f[2])

RECURSIVE GCD(_, _)
GCD(a, b) == IF b = 0 THEN a ELSE GCD(b, a % b)

\* exact a + b of two fractions, over the least common denominator
FracAdd(a, b) ==
  LET d == (a[2] * b[2]) \div GCD(a[2], b[2])
  IN  << a[1] * (d \div a[2]) + b[1] * (d \div b[2]), d >>

----------------------------------------------------------------------------
(* What a scanner's promise can settle with.  A check keeps its name and   *)
(* status; score and maxScore count quarter points.                        *)

Chk(n, s) == [name |-> n, status |-> s, message |-> ""]

Raw(s, m, c) == [score |-> s, maxScore |-> m, checks |-> c]

\* checks of the header scanner with the four required headers at full credit and the
\* four bonus headers absent
HeaderChecks ==
  << Chk("Strict-Transport-Security", "pass"), Chk("X-Content-Type-Options", "pass"),
     Chk("X-Frame-Options", "pass"), Chk("Referrer-Policy", "pass"),
     Chk("Content-Security-Policy", "warn"), Chk("Permissions-Policy", "warn"),
     Chk("Cross-Origin-Opener-Policy", "info"), Chk("Cross-Origin-Resource-Policy", "info") >>

\* results the scanners return for an https: or http: target
RawResults(name, protocol) ==
  CASE name = "headers" ->
         { Raw(44, 60, HeaderChecks) }
    [] name = "ssl" ->
         IF protocol = "https:"
         THEN { Raw(24, 24, << Chk("Certificate Validity", "pass"), Chk("Certificate Issuer", "pass"),
                               Chk("Hostname Match", "pass"), Chk("TLS Version", "pass"),
                               Chk("Cipher Suite", "pass") >>),
                Raw(0, 20, << [name |-> "SSL/TLS Connection", status |-> "error",
                               message |-> "Failed: connect ECONNREFUSED"] >>) }
         ELSE { Raw(0, 20, << Chk("HTTPS", "fail") >>) }
    [] name = "cookies" ->
         { Raw(4, 4, << Chk("Cookies", "info") >>) }
    [] name = "server" ->
         IF protocol = "https:"
         THEN { Raw(8, 16, << Chk("HTTP -> HTTPS Redirect", "warn"), Chk("CORS Policy", "pass"),
                              Chk("HTTP Methods", "pass") >>) }
         ELSE { Raw(8, 16, << Chk("HTTPS", "fail"), Chk("CORS Policy", "pass"),
                              Chk("HTTP Methods", "pass") >>) }
    [] name = "exposedFiles" ->
         { Raw(112, 112, << Chk("Sensitive Files", "pass") >>) }
    [] name = "dns" ->
         { Raw(5, 10, << Chk("SPF Record", "warn"), Chk("DMARC Record", "warn"),
                         Chk("CAA Records", "pass") >>) }
    [] name = "sri" ->
         { Raw(11, 28, << Chk("Subresource Integrity", "fail"), Chk("SRI: cdn", "fail") >>) }
    [] name = "mixedContent" ->
         IF protocol = "https:"
         THEN { Raw(8, 8, << Chk("Mixed Content", "pass") >>) }
         ELSE { Raw(0, 0, << Chk("Mixed Content", "info") >>) }
    [] name = "redirects" ->
         { Raw(40, 40, << Chk("Open Redirects", "pass") >>) }

\* messages of the errors a scanner promise or the deadline rejects with
ScannerErrors == { "socket hang up" }

TimeoutMessage == "Scanner timed out"

----------------------------------------------------------------------------
(* checkConnectivity: the first of these events settles its promise *)

FatalCodes == { "ENOTFOUND", "EAI_AGAIN", "ECONNREFUSED", "ETIMEDOUT", "ECONNRESET" }

OtherCodes == { "CERT_HAS_EXPIRED", "EPROTO" }

PreflightEvents ==
  { [type |-> "response", code |-> st] : st \in { "200", "404", "500" } }
    \cup { [type |-> "error", code |-> c] : c \in FatalCodes \cup OtherCodes }
    \cup { [type |-> "timer", code |-> "ETIMEDOUT"], [type |-> "timeout", code |-> "ETIMEDOUT"] }

Unsent == [type |-> "unsent", code |-> ""]
Sent == [type |-> "sent", code |-> ""]
Consumed == [type |-> "consumed", code |-> ""]

\* variant: the error handler rejects on every error
checkConnectivity_AnyError(ev) == ev.type # "response"

\* TRUE iff the handler of event ev rejects the promise (otherwise it resolves it)
checkConnectivity(ev) ==
  CASE ev.type = "response" -> FALSE
    [] ev.type = "error"    -> ev.code \in FatalCodes
    [] ev.type = "timer"    -> TRUE
    [] ev.type = "timeout"  -> TRUE

----------------------------------------------------------------------------
(* The async wrapper around one scanner, and Promise.all *)

\* variant: the catch block builds the zero result without its error check
Wrapper_NoErrorCheck(scanner, race) ==
  [state |-> "fulfilled", name |-> scanner.name, weight |-> scanner.weight,
   result |-> IF race.state = "fulfilled" THEN race.result ELSE Raw(0, 4 * scanner.weight, << >>)]

\* variant: no try/catch around the race, a rejection escapes the wrapper
Wrapper_NoCatch(scanner, race) ==
  [state |-> race.state, name |-> scanner.name, weight |-> scanner.weight,
   result |-> race.result]

\* what the wrapper's promise settles with, given how the race settled
Wrapper(scanner, race) ==
  IF race.state = "fulfilled"
  THEN [state |-> "fulfilled", name |-> scanner.name, weight |-> scanner.weight,
        result |-> race.result]
  ELSE [state |-> "fulfilled", name |-> scanner.name, weight |-> scanner.weight,
        result |-> Raw(0, 4 * scanner.weight,
                       << [name |-> scanner.name, status |-> "error", message |-> race.message] >>)]

\* variant: scanners are awaited without a deadline race
TimerArmed_NoDeadline(t) == FALSE

\* the deadline timer of a wrapper is armed when the wrapper starts
TimerArmed(t) == t = "armed"

\* variant: values are collected in the order in which the promises fulfil
StoreValue_Push(vals, index, v) ==
  LET k == CHOOSE k \in DOMAIN vals :
             vals[k].state = "pending" /\ \A j \in DOMAIN vals : j < k => vals[j].state # "pending"
  IN  [vals EXCEPT ![k] = v]

\* Promise.all stores the value of the promise at position index under that index
StoreValue(vals, index, v) == [vals EXCEPT ![index] = v]

\* variant: resolves as soon as one element promise has fulfilled
PromiseAllResolved_Any(vals) == \E i \in DOMAIN vals : vals[i].state = "fulfilled"

\* Promise.all resolves once every element promise has fulfilled
PromiseAllResolved(vals) == \A i \in DOMAIN vals : vals[i].state = "fulfilled"

\* the race of wrapper name has not settled yet
RacePending(name) == probe[name].state = "pending" /\ timer[name] = "armed"

----------------------------------------------------------------------------
(* Aggregation loop of scan() over scanResults *)

\* variant: the raw score is scaled by the weight without dividing by the raw maxScore
NormalizedScore_NoDivision(result, weight) == << result.score * weight, 4 >>

\* result.maxScore > 0 ? (result.score / result.maxScore) * weight : 0
NormalizedScore(result, weight) ==
  IF result.maxScore > 0 THEN << result.score * weight, result.maxScore >> ELSE << 0, 1 >>

\* variant: the section grade is taken from the displayed (rounded) score
Section_GradeOfDisplayed(v) ==
  [ name     |-> v.name,
    score    |-> Round10(NormalizedScore(v.result, v.weight)),
    maxScore |-> v.weight,
    grade    |-> calculateGrade(<< Round10(NormalizedScore(v.result, v.weight)), 10 * v.weight >>),
    checks   |-> v.result.checks ]

\* the section written for one element of scanResults
Section(v) ==
  LET normalizedScore == NormalizedScore(v.result, v.weight)
  IN  [ name     |-> v.name,
        score    |-> Round10(normalizedScore),
        maxScore |-> v.weight,
        grade    |-> calculateGrade(<< normalizedScore[1], normalizedScore[2] * v.weight >>),
        checks   |-> v.result.checks ]

\* results.sections[name] = section: a new key is appended, an existing key keeps its place
SetSection(sections, sec) ==
  IF \E k \in DOMAIN sections : sections[k].name = sec.name
  THEN [ k \in DOMAIN sections |-> IF sections[k].name = sec.name THEN sec ELSE sections[k] ]
  ELSE Append(sections, sec)

\* the elements of the resolved values array
ScanResults(vals) == SelectSeq(vals, LAMBDA v : v.state = "fulfilled")

\* F applied to the value of v, v being evaluated once
With(v, F(_)) == CHOOSE y \in { F(x) : x \in { v } } : TRUE

\* results.sections after the first k iterations of the loop
RECURSIVE Sections(_, _)
Sections(scanResults, k) ==
  IF k = 0 THEN << >>
  ELSE With(Sections(scanResults, k - 1),
            LAMBDA sections : SetSection(sections, Section(scanResults[k])))

\* totalScore after the first k iterations of the loop
RECURSIVE TotalScore(_, _)
TotalScore(scanResults, k) ==
  IF k = 0 THEN << 0, 1 >>
  ELSE With(TotalScore(scanResults, k - 1),
            LAMBDA totalScore :
              FracAdd(totalScore, NormalizedScore(scanResults[k].result, scanResults[k].weight)))

\* variant: a scanner whose raw maxScore is 0 is left out of totalMax
RECURSIVE TotalMax_SkipZero(_, _)
TotalMax_SkipZero(scanResults, k) ==
  IF k = 0 THEN 0
  ELSE TotalMax_SkipZero(scanResults, k - 1)
         + (IF scanResults[k].result.maxScore > 0 THEN scanResults[k].weight ELSE 0)

\* totalMax after the first k iterations of the loop
RECURSIVE TotalMax(_, _)
TotalMax(scanResults, k) ==
  IF k = 0 THEN 0 ELSE TotalMax(scanResults, k - 1) + scanResults[k].weight

CountStatus(checks, st) == Cardinality({ j \in DOMAIN checks : checks[j].status = st })

RECURSIVE Summary(_, _, _)
Summary(scanResults, k, st) ==
  IF k = 0 THEN 0
  ELSE Summary(scanResults, k - 1, st) + CountStatus(scanResults[k].result.checks, st)

\* results.grade, results.score and results.maxScore from totalScore and totalMax
Totals(totalScore, totalMax) ==
  [ grade    |-> calculateGrade(<< totalScore[1], totalScore[2] * totalMax >>),
    score    |-> Round10(totalScore),
    maxScore |-> totalMax ]

\* the Report built from scanResults
Aggregate(scanResults) ==
  LET n == Len(scanResults)
      totals == With(TotalScore(scanResults, n),
                     LAMBDA totalScore : Totals(totalScore, TotalMax(scanResults, n)))
  IN  [ state    |-> "returned",
        grade    |-> totals.grade,
        score    |-> totals.score,
        maxScore |-> totals.maxScore,
        sections |-> Sections(scanResults, n),
        summary  |-> [ passed   |-> Summary(scanResults, n, "pass"),
                       warnings |-> Summary(scanResults, n, "warn"),
                       failed   |-> Summary(scanResults, n, "fail"),
                       info     |-> Summary(scanResults, n, "info") ] ]

----------------------------------------------------------------------------
(* Inputs of one scan *)

Protocols == { "https:", "http:" }

Tiers == { "", "free", "pro", "team" }

OptionInputs == { [tier |-> t, full |-> f] : t \in Tiers, f \in BOOLEAN }

\* bound of the exploration: at most MaxFaults scanners of one scan reject or run into
\* their deadline; the others fulfil
MaxFaults == 2

FaultCount ==
  Cardinality({ n \in ScannerNames : probe[n].state = "rejected" \/ timer[n] = "fired" })

IdleProbe == [state |-> "idle", result |-> Raw(0, 0, << >>), message |-> ""]

PendingProbe == [state |-> "pending", result |-> Raw(0, 0, << >>), message |-> ""]

----------------------------------------------------------------------------
(* Actions of scan() *)

ScanInit ==
  /\ pc = "idle"
  /\ thrown = NoError
  /\ target = NoTarget
  /\ options = NoOptions
  /\ preflight = Unsent
  /\ enabledScanners = << >>
  /\ probe = [ n \in ScannerNames |-> IdleProbe ]
  /\ timer = [ n \in ScannerNames |-> "unset" ]
  /\ values = << >>
  /\ results = NoReport
  /\ reordered = FALSE

\* scan(url, options) up to its first await: new URL(url) throws on an unparsable url,
\* otherwise the HEAD request of checkConnectivity is sent
ScanCall(urlOk, protocol, opts) ==
  /\ pc = "idle"
  /\ IF urlOk
     THEN /\ pc' = "preflight"
          /\ target' = [protocol |-> protocol]
          /\ options' = opts
          /\ preflight' = Sent
          /\ UNCHANGED thrown
     ELSE /\ pc' = "threw"
          /\ thrown' = "ERR_INVALID_URL"
          /\ UNCHANGED <<target, options, preflight>>
  /\ UNCHANGED <<enabledScanners, probe, timer, values, results, reordered, ratio, grade, entryVars, callVars>>

\* the first event of the request (or the timer) settles checkConnectivity's promise
PreflightEvent(ev) ==
  /\ pc = "preflight"
  /\ preflight = Sent
  /\ preflight' = ev
  /\ UNCHANGED <<pc, thrown, target, options, enabledScanners, probe, timer, values,
                 results, reordered, ratio, grade, entryVars, callVars>>

\* scan() resumes after the await: a rejection propagates, otherwise every enabled
\* scanner is started with its deadline timer and scan() awaits Promise.all
PreflightSettled ==
  /\ pc = "preflight"
  /\ preflight.type \notin { "unsent", "sent", "consumed" }
  /\ IF checkConnectivity(preflight)
     THEN /\ pc' = "threw"
          /\ thrown' = preflight.code
          /\ UNCHANGED <<enabledScanners, probe, timer, values>>
     ELSE /\ pc' = "running"
          /\ enabledScanners' = EnabledScanners(options)
          /\ probe' = [ n \in ScannerNames |->
                          IF n \in Range(AllowedScanners(options)) THEN PendingProbe ELSE IdleProbe ]
          /\ timer' = [ n \in ScannerNames |->
                          IF n \in Range(AllowedScanners(options)) THEN "armed" ELSE "unset" ]
          /\ values' = [ i \in 1 .. Len(EnabledScanners(options)) |-> NoResult ]
          /\ UNCHANGED thrown
  /\ preflight' = Consumed
  /\ options' = NoOptions
  /\ UNCHANGED <<target, results, reordered, ratio, grade, entryVars, callVars>>

\* wrapper i returns while the wrapper of an earlier-declared scanner is still pending
OvertakesEarlier(i) ==
  \E j \in DOMAIN enabledScanners : j < i /\ RacePending(enabledScanners[j].name)

\* the promise of scanner i settles before its deadline: the race settles the same way
\* and the wrapper returns; a rejected wrapper would reject Promise.all and scan()
ProbeSettles(i, settled) ==
  /\ pc = "running"
  /\ i \in DOMAIN enabledScanners
  /\ RacePending(enabledScanners[i].name)
  /\ probe' = [probe EXCEPT ![enabledScanners[i].name] = settled]
  /\ LET w == Wrapper(enabledScanners[i], settled)
     IN  IF w.state = "fulfilled"
         THEN /\ values' = StoreValue(values, i, w)
              /\ UNCHANGED <<pc, thrown>>
         ELSE /\ pc' = "threw"
              /\ thrown' = settled.message
              /\ UNCHANGED values
  /\ reordered' = (reordered \/ OvertakesEarlier(i))
  /\ UNCHANGED <<target, options, preflight, enabledScanners, timer, results, ratio, grade, entryVars, callVars>>

ProbeFulfils(i) ==
  \E raw \in RawResults(enabledScanners[i].name, target.protocol) :
     ProbeSettles(i, [state |-> "fulfilled", result |-> raw, message |-> ""])

ProbeRejects(i) ==
  /\ FaultCount < MaxFaults
  /\ \E msg \in ScannerErrors :
     ProbeSettles(i, [state |-> "rejected", result |-> Raw(0, 0, << >>), message |-> msg])

\* the deadline of scanner i fires while its promise is still pending: the race rejects
DeadlineFires(i) ==
  /\ pc = "running"
  /\ FaultCount < MaxFaults
  /\ i \in DOMAIN enabledScanners
  /\ probe[enabledScanners[i].name].state = "pending"
  /\ TimerArmed(timer[enabledScanners[i].name])
  /\ timer' = [timer EXCEPT ![enabledScanners[i].name] = "fired"]
  /\ LET w == Wrapper(enabledScanners[i],
                      [state |-> "rejected", result |-> Raw(0, 0, << >>), message |-> TimeoutMessage])
     IN  IF w.state = "fulfilled"
         THEN /\ values' = StoreValue(values, i, w)
              /\ UNCHANGED <<pc, thrown>>
         ELSE /\ pc' = "threw"
              /\ thrown' = TimeoutMessage
              /\ UNCHANGED values
  /\ reordered' = (reordered \/ OvertakesEarlier(i))
  /\ UNCHANGED <<target, options, preflight, enabledScanners, probe, results, ratio, grade, entryVars, callVars>>

\* scan() resumes after await Promise.all: aggregates and returns the Report
ScanReturns ==
  /\ pc = "running"
  /\ PromiseAllResolved(values)
  /\ results' = With(ScanResults(values), LAMBDA scanResults : Aggregate(scanResults))
  /\ pc' = "done"
  /\ UNCHANGED <<thrown, target, options, preflight, enabledScanners, probe, timer, values,
                 reordered, ratio, grade, entryVars, callVars>>

\* no CLI run or MCP tool call is under way and the usage file does not exist
EntryIdle ==
  /\ license = "free"
  /\ usage = [scans |-> << >>, lastReset |-> 0]
  /\ today = 1
  /\ req = << >>

\* no stand-alone call of a helper is under way
CallIdle == call = [fn |-> "none"] /\ ret = [fn |-> "none"]

Init == ScanInit /\ ratio = NoRatio /\ grade = NoGrade /\ EntryIdle /\ CallIdle

Next ==
  \/ \E urlOk \in BOOLEAN, protocol \in Protocols, opts \in OptionInputs :
        ScanCall(urlOk, protocol, opts)
  \/ \E ev \in PreflightEvents : PreflightEvent(ev)
  \/ PreflightSettled
  \/ \E i \in DOMAIN enabledScanners : ProbeFulfils(i)
  \/ \E i \in DOMAIN enabledScanners : ProbeRejects(i)
  \/ \E i \in DOMAIN enabledScanners : DeadlineFires(i)
  \/ ScanReturns

Spec == Init /\ [][Next]_vars

\* a scanner beyond the MaxFaults faulty ones is healthy: its promise fulfils
HealthyFulfils(i) ==
  /\ pc = "running"
  /\ i \in DOMAIN enabledScanners
  /\ FaultCount >= MaxFaults
  /\ ProbeFulfils(i)

\* a step the event loop takes on its own: an event of the preflight request or its
\* timer, a due deadline, a resumed await
EventLoopStep ==
  \/ \E ev \in PreflightEvents : PreflightEvent(ev)
  \/ PreflightSettled
  \/ ScanReturns
  \/ \E i \in DOMAIN enabledScanners : DeadlineFires(i)
  \/ \E i \in DOMAIN enabledScanners : HealthyFulfils(i)

\* The event loop does not stop while a timer is due or a continuation is ready.  The
\* promise of a scanner is under no obligation to settle.
Fairness == WF_vars(EventLoopStep)

FairSpec == Spec /\ Fairness

----------------------------------------------------------------------------
(* Stand-alone calls of calculateGrade *)

\* largest denominator of the ratios handed to calculateGrade
MaxRatioDen == 20

RatioInputs == { << n, d >> : n \in 0 .. MaxRatioDen, d \in 1 .. MaxRatioDen }

GradeInit == ScanInit /\ ratio \in RatioInputs /\ grade = NoGrade /\ EntryIdle /\ CallIdle

GradeCall ==
  /\ grade = NoGrade
  /\ grade' = calculateGrade(ratio)
  /\ UNCHANGED <<scanVars, ratio, entryVars, callVars>>

GradeNext == GradeCall

GradeSpec == GradeInit /\ [][GradeNext]_vars

----------------------------------------------------------------------------
(* license.js: the license file and the usage file.  A timestamp of        *)
(* usage.scans is held as its date, a day number; lastReset 0 is null.     *)

FREE_DAILY_LIMIT == 3

NoUsage == [scans |-> << >>, lastReset |-> 0]

\* "reset if it's a new day"
ResetIfNewDay(use, day) ==
  IF use.lastReset # day THEN [scans |-> << >>, lastReset |-> day] ELSE use

\* usage.scans.filter(s => s.startsWith(today))
TodayScans(use, day) == SelectSeq(ResetIfNewDay(use, day).scans, LAMBDA s : s = day)

checkRateLimit(lic, use, day) ==
  IF lic = "pro" THEN [allowed |-> TRUE, remaining |-> -1]
  ELSE IF Len(TodayScans(use, day)) >= FREE_DAILY_LIMIT
       THEN [allowed |-> FALSE, remaining |-> 0]
       ELSE [allowed |-> TRUE, remaining |-> FREE_DAILY_LIMIT - Len(TodayScans(use, day))]

\* the usage file after recordScan(); only the last 10 scans are kept
recordScan(lic, use, day) ==
  IF lic = "pro" THEN use
  ELSE LET pushed == Append(ResetIfNewDay(use, day).scans, day)
       IN  [ scans     |-> IF Len(pushed) > 10
                           THEN SubSeq(pushed, Len(pushed) - 9, Len(pushed))
                           ELSE pushed,
             lastReset |-> day ]

----------------------------------------------------------------------------
(* scan() as the entry points see it: it throws, or it returns the Report  *)
(* aggregated from what the wrappers of the enabled scanners settled with  *)

\* messages a scanner promise rejects with when scan() is called from an entry point
EntryScannerErrors == ScannerErrors \cup { "connect ECONNREFUSED" }

\* /ENOTFOUND|ECONNREFUSED|ETIMEDOUT|ECONNRESET|network/i.test(message)
MatchesNetworkPattern(message) ==
  message \in { "connect ECONNREFUSED", "Failed: connect ECONNREFUSED" }

\* the values arrays Promise.all can resolve with for the first k enabled scanners, at
\* most f of them having rejected or timed out
RECURSIVE ScanVectors(_, _, _, _)
ScanVectors(enabled, protocol, k, f) ==
  IF k = 0 THEN { << >> }
  ELSE { Append(v, Wrapper(enabled[k], [state |-> "fulfilled", result |-> raw, message |-> ""])) :
           v \in ScanVectors(enabled, protocol, k - 1, f),
           raw \in RawResults(enabled[k].name, protocol) }
       \cup
       IF f = 0 THEN { }
       ELSE { Append(v, Wrapper(enabled[k], [state |-> "rejected", result |-> Raw(0, 0, << >>),
                                             message |-> msg])) :
                v \in ScanVectors(enabled, protocol, k - 1, f - 1),
                msg \in EntryScannerErrors \cup { TimeoutMessage } }

\* the checks of all sections of a Report
RECURSIVE AllChecks(_, _)
AllChecks(sections, k) ==
  IF k = 0 THEN << >> ELSE AllChecks(sections, k - 1) \o sections[k].checks

\* coreScanners.every(name => section exists and has an error check with a network message)
CoreErrored(report) ==
  \A name \in { "headers", "ssl" } :
     \E k \in DOMAIN report.sections :
        /\ report.sections[k].name = name
        /\ \E j \in DOMAIN report.sections[k].checks :
              /\ report.sections[k].checks[j].status = "error"
              /\ MatchesNetworkPattern(report.sections[k].checks[j].message)

\* Math.round((results.score / results.maxScore) * 100), score counting tenths
Percentage(report) == (20 * report.score + report.maxScore) \div (2 * report.maxScore)

\* what the entry points read of a Report, and whether it has findings of status fail
\* and error
ReportView(report) ==
  [ threw        |-> FALSE,
    code         |-> "",
    failed       |-> report.summary.failed,
    coreErrored  |-> CoreErrored(report),
    percentage   |-> Percentage(report),
    ran          |-> { report.sections[k].name : k \in DOMAIN report.sections },
    failFinding  |-> CountStatus(AllChecks(report.sections, Len(report.sections)), "fail") > 0,
    errorFinding |-> CountStatus(AllChecks(report.sections, Len(report.sections)), "error") > 0 ]

ThrownView(code) ==
  [ threw |-> TRUE, code |-> code, failed |-> 0, coreErrored |-> FALSE, percentage |-> 0,
    ran |-> { }, failFinding |-> FALSE, errorFinding |-> FALSE ]

\* the url every entry point is called with is an https: url
EntryProtocol == "https:"

\* at most MaxEntryFaults scanners reject or time out in a scan made by an entry point
MaxEntryFaults == 1

\* every way scan(url, opts) can end
ScanOutcomes(opts) ==
  { ThrownView(code) : code \in { "ERR_INVALID_URL" } \cup FatalCodes }
    \cup { ReportView(Aggregate(v)) :
             v \in ScanVectors(EnabledScanners(opts), EntryProtocol,
                               Len(EnabledScanners(opts)), MaxEntryFaults) }

ScanTable ==
  [ opts \in { [tier |-> t, full |-> f] : t \in { "free", "pro" }, f \in BOOLEAN } |->
      ScanOutcomes(opts) ]

----------------------------------------------------------------------------
(* Entry points: bin/cli.js (single scan, --batch) and the MCP tools       *)

EXIT == [SUCCESS |-> 0, ISSUES_FOUND |-> 1, BAD_ARGS |-> 2, CONFIG_ERROR |-> 1, NETWORK_ERROR |-> 1]

\* isNetworkError(err) for the errors scan() throws
isNetworkError(code) == code \in { "ECONNREFUSED", "ENOTFOUND", "ETIMEDOUT", "ECONNRESET" }

\* number of requests of one behaviour
MaxRequests == 2

\* number of urls on the stdin of a --batch run
MaxBatchUrls == 2

\* number of days of one behaviour
MaxDay == 2

Requests == 1 .. MaxRequests

\* a request: its entry point and arguments, how far its handler got, and what became
\* of it: over (made with FREE_DAILY_LIMIT scans recorded for the day), ran (scanners of
\* the Reports it got), exit code, error code, findings of the Report of a CLI single scan
NewReq ==
  [ entry |-> "none", state |-> "new", full |-> FALSE, ci |-> "off", left |-> 0,
    over |-> FALSE, ran |-> { }, exit |-> -1, error |-> "",
    failFinding |-> FALSE, errorFinding |-> FALSE, hasIssues |-> FALSE, hasErrors |-> FALSE ]

\* --ci with --min-score: off, on with the default minimum, on with a minimum that
\* parseInt turns into NaN
CiInputs == { "off", "on", "nan" }

\* the default of --min-score
DefaultMinScore == 70

\* todayScans.length >= FREE_DAILY_LIMIT at the time the request is made
OverLimit == Len(TodayScans(usage, today)) >= FREE_DAILY_LIMIT

\* the handler returns or exits without (further) scanning
Ends(q, exit, error) == [q EXCEPT !.state = "done", !.exit = exit, !.error = error]

\* the handler calls scan(url, {tier: license.tier, full}) and awaits it
Awaits(q, full) == [q EXCEPT !.state = "scanning", !.full = full]

\* runSingleScan from its start to await scan(...)
CliStart(r, argsOk, full, ci) ==
  /\ r = Len(req) + 1
  /\ r \in Requests
  /\ LET q == [NewReq EXCEPT !.entry = "cli", !.full = full, !.ci = ci, !.over = OverLimit]
     IN  req' = Append(req,
                  IF ~argsOk THEN Ends(q, EXIT.BAD_ARGS, "ERR_BAD_ARGS")
                  ELSE IF ~checkRateLimit(license, usage, today).allowed
                       THEN Ends(q, EXIT.CONFIG_ERROR, "ERR_RATE_LIMIT")
                  ELSE IF full /\ license # "pro"
                       THEN Ends(q, EXIT.CONFIG_ERROR, "ERR_PRO_REQUIRED")
                  ELSE Awaits(q, full))
  /\ UNCHANGED <<license, usage, today>>

\* the exit code of runSingleScan once scan() returned a Report
CliExitCode(q, out) ==
  IF out.coreErrored THEN EXIT.NETWORK_ERROR
  ELSE IF q.ci # "off"
       THEN IF q.ci = "nan" THEN EXIT.BAD_ARGS
            ELSE IF out.percentage < DefaultMinScore THEN EXIT.ISSUES_FOUND
            ELSE EXIT.SUCCESS
  ELSE IF out.failed > 0 THEN EXIT.ISSUES_FOUND
  ELSE EXIT.SUCCESS

\* the ways the scan awaited by request q can end
OutcomesOf(q) == ScanTable[[tier |-> license, full |-> q.full]]

\* runSingleScan from the return of scan() to its own return
CliFinish(r) ==
  /\ r \in DOMAIN req
  /\ req[r].entry = "cli"
  /\ req[r].state = "scanning"
  /\ \E out \in OutcomesOf(req[r]) :
       IF out.threw
       THEN /\ req' = [req EXCEPT ![r] =
                         Ends(@, IF isNetworkError(out.code) THEN EXIT.NETWORK_ERROR
                                 ELSE EXIT.ISSUES_FOUND,
                                 IF isNetworkError(out.code) THEN "ERR_NETWORK" ELSE "ERR_SCAN")]
            /\ UNCHANGED usage
       ELSE /\ usage' = recordScan(license, usage, today)
            /\ req' = [req EXCEPT ![r] =
                         Ends([@ EXCEPT !.ran = out.ran, !.failFinding = out.failFinding,
                                        !.errorFinding = out.errorFinding],
                              CliExitCode(@, out),
                              IF CliExitCode(@, out) = EXIT.BAD_ARGS THEN "ERR_BAD_ARGS" ELSE "")]
  /\ UNCHANGED <<license, today>>

\* runBatchMode from its start to the loop over the n urls read from stdin
BatchStart(r, n, full) ==
  /\ r = Len(req) + 1
  /\ r \in Requests
  /\ LET q == [NewReq EXCEPT !.entry = "batch", !.full = full, !.left = n]
     IN  req' = Append(req, IF n = 0 THEN Ends(q, EXIT.BAD_ARGS, "ERR_NO_INPUT")
                            ELSE [q EXCEPT !.state = "looping"])
  /\ UNCHANGED <<license, usage, today>>

\* one pass of the loop up to await scan(...), or the exit after the last url
BatchLoop(r) ==
  /\ r \in DOMAIN req
  /\ req[r].entry = "batch"
  /\ req[r].state = "looping"
  /\ req' = [req EXCEPT ![r] =
               IF @.left = 0
               THEN Ends(@, IF @.hasErrors THEN EXIT.NETWORK_ERROR
                            ELSE IF @.hasIssues THEN EXIT.ISSUES_FOUND
                            ELSE EXIT.SUCCESS, @.error)
               ELSE IF ~checkRateLimit(license, usage, today).allowed
                    THEN [@ EXCEPT !.hasErrors = TRUE, !.left = @ - 1, !.error = "ERR_RATE_LIMIT",
                                   !.over = OverLimit]
               ELSE Awaits([@ EXCEPT !.over = OverLimit], @.full)]
  /\ UNCHANGED <<license, usage, today>>

\* the rest of the pass once scan() settled
BatchFinish(r) ==
  /\ r \in DOMAIN req
  /\ req[r].entry = "batch"
  /\ req[r].state = "scanning"
  /\ \E out \in OutcomesOf(req[r]) :
       IF out.threw
       THEN /\ req' = [req EXCEPT ![r] =
                         [@ EXCEPT !.state = "looping", !.hasErrors = TRUE, !.left = @ - 1]]
            /\ UNCHANGED usage
       ELSE /\ usage' = recordScan(license, usage, today)
            /\ req' = [req EXCEPT ![r] =
                         [@ EXCEPT !.state = "looping", !.left = @ - 1, !.ran = out.ran,
                                   !.hasIssues = @ \/ out.failed > 0]]
  /\ UNCHANGED <<license, today>>

\* the scan tool of the MCP server up to await scan(...)
McpScan(r, full) ==
  /\ r = Len(req) + 1
  /\ r \in Requests
  /\ LET q == [NewReq EXCEPT !.entry = "scan", !.full = full, !.over = OverLimit]
     IN  req' = Append(req, IF ~checkRateLimit(license, usage, today).allowed
                            THEN Ends(q, -1, "ERR_RATE_LIMIT")
                            ELSE Awaits(q, full))
  /\ UNCHANGED <<license, usage, today>>

\* the generate_fixes tool of the MCP server up to await scan(...)
McpGenerateFixes(r) ==
  /\ r = Len(req) + 1
  /\ r \in Requests
  /\ req' = Append(req, Awaits([NewReq EXCEPT !.entry = "generate_fixes", !.over = OverLimit],
                               FALSE))
  /\ UNCHANGED <<license, usage, today>>

\* either tool once scan() settled: a throw is answered by the handler's catch
McpFinish(r) ==
  /\ r \in DOMAIN req
  /\ req[r].entry \in { "scan", "generate_fixes" }
  /\ req[r].state = "scanning"
  /\ \E out \in OutcomesOf(req[r]) :
       IF out.threw
       THEN /\ req' = [req EXCEPT ![r] = Ends(@, -1, "ERR_SCAN")]
            /\ UNCHANGED usage
       ELSE /\ usage' = recordScan(license, usage, today)
            /\ req' = [req EXCEPT ![r] = Ends([@ EXCEPT !.ran = out.ran], -1, "")]
  /\ UNCHANGED <<license, today>>

\* midnight passes
DayTick ==
  /\ today < MaxDay
  /\ today' = today + 1
  /\ UNCHANGED <<license, usage, req>>

\* the usage file as earlier runs of the same day can have left it
InitialUsages ==
  { NoUsage } \cup { [scans |-> [i \in 1 .. k |-> 1], lastReset |-> 1] : k \in 1 .. FREE_DAILY_LIMIT }

EntryInit ==
  /\ ScanInit /\ ratio = NoRatio /\ grade = NoGrade /\ CallIdle
  /\ license \in { "free", "pro" }
  /\ usage \in InitialUsages
  /\ today = 1
  /\ req = << >>

EntryNext ==
  \/ \E r \in Requests, argsOk \in BOOLEAN, full \in BOOLEAN, ci \in CiInputs :
        CliStart(r, argsOk, full, ci) /\ UNCHANGED <<scanVars, ratio, grade, callVars>>
  \/ \E r \in Requests : CliFinish(r) /\ UNCHANGED <<scanVars, ratio, grade, callVars>>
  \/ \E r \in Requests, n \in 0 .. MaxBatchUrls, full \in BOOLEAN :
        BatchStart(r, n, full) /\ UNCHANGED <<scanVars, ratio, grade, callVars>>
  \/ \E r \in Requests : BatchLoop(r) /\ UNCHANGED <<scanVars, ratio, grade, callVars>>
  \/ \E r \in Requests : BatchFinish(r) /\ UNCHANGED <<scanVars, ratio, grade, callVars>>
  \/ \E r \in Requests, full \in BOOLEAN :
        McpScan(r, full) /\ UNCHANGED <<scanVars, ratio, grade, callVars>>
  \/ \E r \in Requests : McpGenerateFixes(r) /\ UNCHANGED <<scanVars, ratio, grade, callVars>>
  \/ \E r \in Requests : McpFinish(r) /\ UNCHANGED <<scanVars, ratio, grade, callVars>>
  \/ DayTick /\ UNCHANGED <<scanVars, ratio, grade, callVars>>

EntrySpec == EntryInit /\ [][EntryNext]_vars

----------------------------------------------------------------------------
(* Properties *)

----------------------------------------------------------------------------
(* Strings of the scanner helpers: a string is the sequence of its         *)
(* characters                                                              *)

NoCall == [fn |-> "none"]

NoRet == [fn |-> "none"]

\* String.prototype.toLowerCase over the characters used here
ToLowerCase(s) == [ i \in DOMAIN s |-> IF s[i] = "A" THEN "a" ELSE s[i] ]

\* s.startsWith(prefix)
StartsWith(s, prefix) == Len(prefix) <= Len(s) /\ SubSeq(s, 1, Len(prefix)) = prefix

\* s.endsWith(suffix)
EndsWith(s, suffix) ==
  Len(suffix) <= Len(s) /\ SubSeq(s, Len(s) - Len(suffix) + 1, Len(s)) = suffix

\* s.slice(n), n characters dropped
Slice(s, n) == SubSeq(s, n + 1, Len(s))

\* s.split('.').length
SplitLength(s) == Cardinality({ i \in DOMAIN s : s[i] = "." }) + 1

\* the strings of at most n characters over an alphabet
RECURSIVE StringsUpTo(_, _)
StringsUpTo(alphabet, n) ==
  IF n = 0 THEN { << >> }
  ELSE StringsUpTo(alphabet, n - 1)
         \cup { Append(s, c) : s \in { t \in StringsUpTo(alphabet, n - 1) : Len(t) = n - 1 },
                               c \in alphabet }

----------------------------------------------------------------------------
(* ssl.js: matchesDomain *)

matchesDomain(pattern, hostname) ==
  IF pattern = << >> THEN FALSE
  ELSE LET p == ToLowerCase(pattern)
           h == ToLowerCase(hostname)
       IN  IF p = h THEN TRUE
           ELSE IF StartsWith(p, << "*", "." >>)
                THEN LET suffix == Slice(p, 2)
                     IN  EndsWith(h, suffix) /\ SplitLength(h) = SplitLength(p)
           ELSE FALSE

\* longest hostname handed to matchesDomain
MaxHostLen == 4

\* longest suffix of a wildcard pattern
MaxSuffixLen == 2

NameChars == { "a", "A", "b", "." }

HostnameInputs == StringsUpTo(NameChars, MaxHostLen)

PatternInputs ==
  StringsUpTo(NameChars, MaxSuffixLen)
    \cup { << "*", "." >> \o s : s \in StringsUpTo(NameChars, MaxSuffixLen) }

MatchInit ==
  /\ ScanInit /\ ratio = NoRatio /\ grade = NoGrade /\ EntryIdle
  /\ call \in { [fn |-> "matchesDomain", pattern |-> p, hostname |-> h] :
                  p \in PatternInputs, h \in HostnameInputs }
  /\ ret = NoRet

MatchCall ==
  /\ call.fn = "matchesDomain"
  /\ ret = NoRet
  /\ ret' = [fn |-> "matchesDomain", value |-> matchesDomain(call.pattern, call.hostname)]
  /\ UNCHANGED <<scanVars, ratio, grade, entryVars, call>>

MatchNext == MatchCall

MatchSpec == MatchInit /\ [][MatchNext]_vars

----------------------------------------------------------------------------
(* exposed-files.js: validateResponse.  A body is a sequence of tokens,    *)
(* each a piece of text that the regular expressions of validateResponse   *)
(* match or do not match as a whole.                                       *)

NewLine == "\n"

\* String.prototype.length of a token, capped at 5 (validateResponse compares with 5)
TokenLength(t) ==
  CASE t = NewLine -> 1
    [] t = "text of 2001 characters" -> 2001
    [] t \in { "404", "A=1" } -> 3
    [] t \in { "<h1>", "text", "ref:" } -> 4
    [] OTHER -> 5

RECURSIVE BodyLength(_)
BodyLength(body) == IF body = << >> THEN 0 ELSE TokenLength(Head(body)) + BodyLength(Tail(body))

\* tokens matching (?:404|not found|page not found|error|oops|doesn't exist), flag i
TitleMarkers == { "404", "error", "Error Log" }

\* tokens matching (?:404|not found|page not found), flag i
H1Markers == { "404" }

\* /<open>.*(?:markers).*<close>/: the dot does not match a line terminator
TagHasMarker(body, open, close, markers) ==
  \E i, j, k \in DOMAIN body :
     /\ i < j /\ j < k
     /\ body[i] = open /\ body[j] \in markers /\ body[k] = close
     /\ \A m \in i .. k : body[m] # NewLine

\* /<(!DOCTYPE|html|head|body)/i.test(body)
IsHtmlResponse(body) == \E i \in DOMAIN body : body[i] = "<html>"

nonHtmlFiles ==
  { "/.env", "/.git/HEAD", "/.git/config", "/.htaccess", "/backup.sql", "/dump.sql", "/db.sql",
    "/.DS_Store", "/composer.json", "/package.json", "/Gruntfile.js", "/Dockerfile",
    "/docker-compose.yml", "/.dockerenv", "/config.php", "/wp-config.php.bak", "/.npmrc",
    "/.aws/credentials", "/debug.log", "/error.log", "/access.log", "/.vscode/settings.json" }

adminPaths ==
  { "/wp-admin/", "/wp-login.php", "/phpmyadmin/", "/adminer.php", "/server-status", "/elmah.axd" }

\* the tokens the indicator expression of an admin panel path matches
PanelIndicators(pathStr) ==
  CASE pathStr = "/wp-admin/"     -> { "wordpress", "<form wp-login" }
    [] pathStr = "/wp-login.php"  -> { "<form wp-login" }
    [] pathStr = "/phpmyadmin/"   -> { "phpMyAdmin" }
    [] pathStr = "/adminer.php"   -> { "adminer" }
    [] pathStr = "/server-status" -> { "Apache" }
    [] pathStr = "/elmah.axd"     -> { "ELMAH", "Error Log" }
    [] OTHER -> { }

\* the paths with a content validation and the tokens its expression matches
ContentShapes(pathStr) ==
  CASE pathStr = "/.env"               -> { "A=1" }
    [] pathStr = "/.git/HEAD"          -> { "ref:" }
    [] pathStr = "/.git/config"        -> { "[core]" }
    [] pathStr = "/composer.json"      -> { "\"require\"" }
    [] pathStr = "/package.json"       -> { "\"name\"" }
    [] pathStr = "/Dockerfile"         -> { "FROM " }
    [] pathStr = "/docker-compose.yml" -> { "services:" }
    [] OTHER -> { }

ContentValidated ==
  { "/.env", "/.git/HEAD", "/.git/config", "/composer.json", "/package.json", "/Dockerfile",
    "/docker-compose.yml" }

Contains(body, tokens) == \E i \in DOMAIN body : body[i] \in tokens

\* variant: the panel indicators are required of every body, HTML or not
validateResponse_AnyBody(statusCode, body, pathStr) ==
  IF statusCode < 200 \/ statusCode >= 300 THEN statusCode
  ELSE IF BodyLength(body) < 5 THEN 404
  ELSE IF TagHasMarker(body, "<title>", "</title>", TitleMarkers) THEN 404
  ELSE IF TagHasMarker(body, "<h1>", "</h1>", H1Markers) THEN 404
  ELSE IF IsHtmlResponse(body) /\ pathStr \in nonHtmlFiles THEN 404
  ELSE IF pathStr \in adminPaths /\ ~Contains(body, PanelIndicators(pathStr)) THEN 404
  ELSE IF pathStr \in ContentValidated /\ ~Contains(body, ContentShapes(pathStr)) THEN 404
  ELSE statusCode

\* variant: no HTML test for the non-HTML files
validateResponse_NoHtmlTest(statusCode, body, pathStr) ==
  IF statusCode < 200 \/ statusCode >= 300 THEN statusCode
  ELSE IF BodyLength(body) < 5 THEN 404
  ELSE IF TagHasMarker(body, "<title>", "</title>", TitleMarkers) THEN 404
  ELSE IF TagHasMarker(body, "<h1>", "</h1>", H1Markers) THEN 404
  ELSE IF IsHtmlResponse(body) /\ pathStr \in adminPaths
          /\ ~Contains(body, PanelIndicators(pathStr)) THEN 404
  ELSE IF pathStr \in ContentValidated /\ ~Contains(body, ContentShapes(pathStr)) THEN 404
  ELSE statusCode

\* variant: no soft-404 test of the h1
validateResponse_NoH1Test(statusCode, body, pathStr) ==
  IF statusCode < 200 \/ statusCode >= 300 THEN statusCode
  ELSE IF BodyLength(body) < 5 THEN 404
  ELSE IF TagHasMarker(body, "<title>", "</title>", TitleMarkers) THEN 404
  ELSE IF IsHtmlResponse(body) /\ pathStr \in nonHtmlFiles THEN 404
  ELSE IF IsHtmlResponse(body) /\ pathStr \in adminPaths
          /\ ~Contains(body, PanelIndicators(pathStr)) THEN 404
  ELSE IF pathStr \in ContentValidated /\ ~Contains(body, ContentShapes(pathStr)) THEN 404
  ELSE statusCode

validateResponse(statusCode, body, pathStr) ==
  IF statusCode < 200 \/ statusCode >= 300 THEN statusCode
  ELSE IF BodyLength(body) < 5 THEN 404
  ELSE IF TagHasMarker(body, "<title>", "</title>", TitleMarkers) THEN 404
  ELSE IF TagHasMarker(body, "<h1>", "</h1>", H1Markers) THEN 404
  ELSE IF IsHtmlResponse(body) /\ pathStr \in nonHtmlFiles THEN 404
  ELSE IF IsHtmlResponse(body) /\ pathStr \in adminPaths
          /\ ~Contains(body, PanelIndicators(pathStr)) THEN 404
  ELSE IF pathStr \in ContentValidated /\ ~Contains(body, ContentShapes(pathStr)) THEN 404
  ELSE statusCode

\* longest body, in tokens
MaxBodyLen == 3

CommonTokens == { "<title>", "</title>", "<h1>", "</h1>", "404", "error", NewLine, "<html>", "text" }

\* the bodies a response to a request of pathStr is drawn from
BodyInputs(pathStr) ==
  StringsUpTo(CommonTokens \cup PanelIndicators(pathStr) \cup ContentShapes(pathStr), MaxBodyLen)

PathInputs ==
  adminPaths \cup { "/.env", "/.git/HEAD", "/package.json", "/backup.sql", "/phpinfo.php" }

StatusInputs == { 200, 204, 302, 404 }

ValidateInit ==
  /\ ScanInit /\ ratio = NoRatio /\ grade = NoGrade /\ EntryIdle
  /\ \E p \in PathInputs :
        call \in { [fn |-> "validateResponse", statusCode |-> st, body |-> b, pathStr |-> p] :
                     st \in StatusInputs, b \in BodyInputs(p) }
  /\ ret = NoRet

ValidateCall ==
  /\ call.fn = "validateResponse"
  /\ ret = NoRet
  /\ ret' = [fn |-> "validateResponse",
             value |-> validateResponse(call.statusCode, call.body, call.pathStr)]
  /\ UNCHANGED <<scanVars, ratio, grade, entryVars, call>>

ValidateNext == ValidateCall

ValidateSpec == ValidateInit /\ [][ValidateNext]_vars

----------------------------------------------------------------------------
(* redirects.js: scanRedirects and followRedirect.  call is the invocation, *)
(* ret the progress of its tests and, once every test has settled, its      *)
(* result.                                                                  *)

REDIRECT_PARAMS ==
  << "url", "redirect", "redirect_url", "redirect_uri", "return", "return_url", "returnTo",
     "return_to", "next", "goto", "dest", "destination", "redir", "out", "continue", "target",
     "path", "callback", "cb", "ref" >>

EVIL_DOMAIN == [scheme |-> "https:", userinfo |-> "", host |-> "evil.example.com"]

\* options.maxRedirectTests is at most this
MaxRedirectTests == 2

Min(a, b) == IF a < b THEN a ELSE b

\* no Location header
NoLocation == [scheme |-> "none", userinfo |-> "", host |-> ""]

\* the hosts a Location header names, beside the host of the request
LocationHosts == { "evil.example.com", "EVIL.example.com", "sub.evil.example.com" }

\* a Location header is a URI reference: scheme "" is a reference without scheme, host ""
\* one without authority ("/login" without scheme, "https://" with)
Locations(originalHost) ==
  { NoLocation }
    \cup [scheme : { "", "https:" }, userinfo : { "" }, host : { "" }]
    \cup [scheme : { "", "https:" }, userinfo : { "", "evil.example.com" },
          host : LocationHosts \cup { originalHost }]

\* the URL parser lower-cases a host
HostToLowerCase(host) == IF host = "EVIL.example.com" THEN "evil.example.com" ELSE host

\* new URL(location, base) throws for a scheme without host
UrlThrows(location) == location.scheme = "https:" /\ location.host = ""

\* new URL(location, base).hostname
ResolvedHostname(location, base) ==
  IF location.host = "" THEN base.hostname ELSE HostToLowerCase(location.host)

\* variant: any host other than the original one is external
isExternal_AnyOtherHost(hostname, originalHost) == hostname # originalHost

\* redirectTarget.hostname === 'evil.example.com'
isExternal(hostname, originalHost) == hostname = EVIL_DOMAIN.host

\* what the response callback of followRedirect passes to done
ResponseValue(testUrl, statusCode, location) ==
  IF statusCode >= 300 /\ statusCode < 400 /\ location # NoLocation
  THEN IF UrlThrows(location) THEN FALSE
       ELSE isExternal(ResolvedHostname(location, testUrl), testUrl.hostname)
  ELSE FALSE

RedirectStatusCodes == { 200, 302, 400 }

RedirectHosts == { "shop.test" }

\* an entry of checks
Finding(name, status) == [name |-> name, status |-> status]

PendingTest(param) ==
  [param |-> param, state |-> "pending", timer |-> "armed", req |-> "open", by |-> "none",
   statusCode |-> 0, location |-> NoLocation, vulnerable |-> FALSE]

TestedCount(opts) == Min(Len(REDIRECT_PARAMS), opts.maxRedirectTests)

TestUrl(c, param) == [hostname |-> c.hostname, param |-> param, value |-> EVIL_DOMAIN]

NoRedirectResult == [score |-> -1]

RedirectInit ==
  /\ ScanInit /\ ratio = NoRatio /\ grade = NoGrade /\ EntryIdle
  /\ call \in [fn : { "scanRedirects" }, hostname : RedirectHosts,
               maxRedirectTests : 1 .. MaxRedirectTests]
  /\ ret = NoRet

Running == call.fn = "scanRedirects" /\ ret.fn = "scanRedirects" /\ ret.result = NoRedirectResult

\* scanRedirects up to Promise.all: one request and one timer for every tested parameter
ScanRedirectsStart ==
  /\ call.fn = "scanRedirects"
  /\ ret = NoRet
  /\ ret' = [fn |-> "scanRedirects",
             tests |-> [i \in 1 .. TestedCount(call) |-> PendingTest(REDIRECT_PARAMS[i])],
             vulnParams |-> << >>,
             result |-> NoRedirectResult]
  /\ UNCHANGED <<scanVars, ratio, grade, entryVars, call>>

\* done(val) and the continuation of the test in scanRedirects
Done(t, by, val) ==
  IF t.state = "pending"
  THEN [t EXCEPT !.state = "resolved", !.by = by, !.vulnerable = val]
  ELSE t

\* vulnParams.push(...) in the continuation of the test whose followRedirect resolved
VulnPushed(vulnParams, t, val) ==
  IF t.state = "pending" /\ val THEN Append(vulnParams, t.param) ELSE vulnParams

\* the response callback
RedirectResponse(i, statusCode, location) ==
  /\ Running
  /\ ret.tests[i].req = "open"
  /\ LET t == ret.tests[i]
         val == ResponseValue(TestUrl(call, t.param), statusCode, location)
     IN ret' = [ret EXCEPT
                  !.tests[i] = Done([t EXCEPT !.req = "done", !.timer = "cleared",
                                              !.statusCode = statusCode, !.location = location],
                                    "response", val),
                  !.vulnParams = VulnPushed(@, t, val)]
  /\ UNCHANGED <<scanVars, ratio, grade, entryVars, call>>

\* req.on('error') of a request that was not destroyed
RedirectError(i) ==
  /\ Running
  /\ ret.tests[i].req = "open"
  /\ ret' = [ret EXCEPT !.tests[i] =
               Done([@ EXCEPT !.req = "closed", !.timer = "cleared"], "error", FALSE)]
  /\ UNCHANGED <<scanVars, ratio, grade, entryVars, call>>

\* req.on('timeout')
RedirectSocketTimeout(i) ==
  /\ Running
  /\ ret.tests[i].req = "open"
  /\ ret' = [ret EXCEPT !.tests[i] =
               Done([@ EXCEPT !.req = "destroyed", !.timer = "cleared"], "timeout", FALSE)]
  /\ UNCHANGED <<scanVars, ratio, grade, entryVars, call>>

\* the setTimeout callback
RedirectTimer(i) ==
  /\ Running
  /\ ret.tests[i].timer = "armed"
  /\ ret' = [ret EXCEPT !.tests[i] =
               Done([@ EXCEPT !.req = "destroyed", !.timer = "fired"], "timer", FALSE)]
  /\ UNCHANGED <<scanVars, ratio, grade, entryVars, call>>

\* req.on('error') of a destroyed request: done finds the promise resolved
RedirectLateError(i) ==
  /\ Running
  /\ ret.tests[i].req = "destroyed"
  /\ ret' = [ret EXCEPT !.tests[i] =
               Done([@ EXCEPT !.req = "closed", !.timer = "cleared"], "error", FALSE)]
  /\ UNCHANGED <<scanVars, ratio, grade, entryVars, call>>

VulnCount(tests) == Cardinality({ i \in DOMAIN tests : tests[i].vulnerable })

\* after Promise.all: the score and the checks
ScanRedirectsFinish ==
  /\ Running
  /\ \A i \in DOMAIN ret.tests : ret.tests[i].state = "resolved"
  /\ LET testedCount == TestedCount(call)
         vulnCount == VulnCount(ret.tests)
     IN ret' = [ret EXCEPT !.result =
                  [score |-> testedCount - vulnCount, maxScore |-> testedCount,
                   status |-> IF vulnCount = 0 THEN "pass" ELSE "fail",
                   checks |-> IF vulnCount = 0
                              THEN << Finding("Open Redirects", "pass") >>
                              ELSE << Finding("Open Redirects", "fail") >>
                                   \o [k \in DOMAIN ret.vulnParams |->
                                        Finding(ret.vulnParams[k], "fail")]]]
  /\ UNCHANGED <<scanVars, ratio, grade, entryVars, call>>

\* the tests of the running scan
Tests == IF ret.fn = "scanRedirects" THEN DOMAIN ret.tests ELSE { }

RedirectNext ==
  \/ ScanRedirectsStart
  \/ \E i \in Tests, statusCode \in RedirectStatusCodes, location \in Locations(call.hostname) :
       RedirectResponse(i, statusCode, location)
  \/ \E i \in Tests : RedirectError(i)
  \/ \E i \in Tests : RedirectSocketTimeout(i)
  \/ \E i \in Tests : RedirectTimer(i)
  \/ \E i \in Tests : RedirectLateError(i)
  \/ ScanRedirectsFinish

RedirectSpec == RedirectInit /\ [][RedirectNext]_vars

----------------------------------------------------------------------------
(* exposed-files.js: scanExposedFiles.  The statuses checkPath resolves to  *)
(* are the input; a score is counted in halves.                             *)

SENSITIVE_PATHS ==
  << [path |-> "/.env", severity |-> "critical"],
     [path |-> "/.git/HEAD", severity |-> "critical"],
     [path |-> "/.git/config", severity |-> "critical"],
     [path |-> "/.svn/entries", severity |-> "high"],
     [path |-> "/.htaccess", severity |-> "medium"],
     [path |-> "/wp-admin/", severity |-> "medium"],
     [path |-> "/wp-login.php", severity |-> "low"],
     [path |-> "/phpinfo.php", severity |-> "high"],
     [path |-> "/server-status", severity |-> "high"],
     [path |-> "/elmah.axd", severity |-> "high"],
     [path |-> "/backup.sql", severity |-> "critical"],
     [path |-> "/dump.sql", severity |-> "critical"],
     [path |-> "/db.sql", severity |-> "critical"],
     [path |-> "/.DS_Store", severity |-> "low"],
     [path |-> "/crossdomain.xml", severity |-> "low"],
     [path |-> "/composer.json", severity |-> "high"],
     [path |-> "/package.json", severity |-> "medium"],
     [path |-> "/Gruntfile.js", severity |-> "medium"],
     [path |-> "/Dockerfile", severity |-> "high"],
     [path |-> "/docker-compose.yml", severity |-> "critical"],
     [path |-> "/.dockerenv", severity |-> "medium"],
     [path |-> "/web.config", severity |-> "high"],
     [path |-> "/config.php", severity |-> "critical"],
     [path |-> "/wp-config.php.bak", severity |-> "critical"],
     [path |-> "/.npmrc", severity |-> "critical"],
     [path |-> "/.aws/credentials", severity |-> "critical"],
     [path |-> "/debug.log", severity |-> "high"],
     [path |-> "/error.log", severity |-> "high"],
     [path |-> "/access.log", severity |-> "medium"],
     [path |-> "/.vscode/settings.json", severity |-> "low"],
     [path |-> "/adminer.php", severity |-> "critical"],
     [path |-> "/phpmyadmin/", severity |-> "critical"],
     [path |-> "/.well-known/security.txt", severity |-> "info"],
     [path |-> "/robots.txt", severity |-> "info"],
     [path |-> "/sitemap.xml", severity |-> "info"],
     [path |-> "/humans.txt", severity |-> "info"] >>

\* status 0 is a failed connection
PathStatuses == { 0, 200, 301, 404 }

\* at most this many paths answer differently from the rest
MaxDeviations == 3

\* the paths that may answer differently from the rest: some of every severity
DeviatingPaths ==
  { "/.env", "/.git/HEAD", "/.svn/entries", "/.htaccess", "/wp-admin/", "/wp-login.php",
    "/robots.txt" }

DeviatingEntries == { k \in DOMAIN SENSITIVE_PATHS : SENSITIVE_PATHS[k].path \in DeviatingPaths }

DefaultBatchSize == 5

IsScored(entry) == entry.severity \in { "critical", "high", "medium" }

RECURSIVE StatusVectors(_, _)
StatusVectors(base, n) ==
  IF n = 0 THEN { [k \in DOMAIN SENSITIVE_PATHS |-> base] }
  ELSE LET less == StatusVectors(base, n - 1)
       IN less \cup { [v EXCEPT ![k] = s] : v \in less, k \in DeviatingEntries,
                                            s \in PathStatuses }

\* the batches of scanExposedFiles: results.push(...batchResults), from entry i on
RECURSIVE CheckBatches(_, _, _)
CheckBatches(status, i, batchSize) ==
  IF i > Len(SENSITIVE_PATHS) THEN << >>
  ELSE LET last == Min(i + batchSize - 1, Len(SENSITIVE_PATHS))
       IN [k \in 1 .. (last - i + 1) |->
             [path |-> SENSITIVE_PATHS[i + k - 1].path,
              severity |-> SENSITIVE_PATHS[i + k - 1].severity,
              status |-> status[i + k - 1]]]
          \o CheckBatches(status, i + batchSize, batchSize)

\* variant: a path that is not exposed scores 1, answered or not
ScoreOne_AnyStatus(result) ==
  LET isExposed == result.status >= 200 /\ result.status < 300
  IN [connectionFailures |-> IF result.status = 0 THEN 1 ELSE 0,
      exposedCritical |-> IF isExposed /\ result.severity = "critical" THEN 1 ELSE 0,
      exposedHigh |-> IF isExposed /\ result.severity = "high" THEN 1 ELSE 0,
      score |-> IF result.severity \in { "info", "low" } THEN 0
                ELSE IF isExposed THEN (IF result.severity = "medium" THEN 1 ELSE 0)
                ELSE 2,
      checks |-> IF ~isExposed THEN << >>
                 ELSE IF result.severity \in { "info", "low" } THEN << "info" >>
                 ELSE IF result.severity = "medium" THEN << "warn" >>
                 ELSE << "fail" >>]

\* one turn of the loop over the results: what it adds to the counters, to the score (in
\* halves) and to the checks
ScoreOne(result) ==
  LET isExposed == result.status >= 200 /\ result.status < 300
  IN [connectionFailures |-> IF result.status = 0 THEN 1 ELSE 0,
      exposedCritical |-> IF isExposed /\ result.severity = "critical" THEN 1 ELSE 0,
      exposedHigh |-> IF isExposed /\ result.severity = "high" THEN 1 ELSE 0,
      score |-> IF result.severity \in { "info", "low" } THEN 0
                ELSE IF isExposed THEN (IF result.severity = "medium" THEN 1 ELSE 0)
                ELSE IF result.status > 0 THEN 2
                ELSE 0,
      checks |-> IF ~isExposed THEN << >>
                 ELSE IF result.severity \in { "info", "low" } THEN << "info" >>
                 ELSE IF result.severity = "medium" THEN << "warn" >>
                 ELSE << "fail" >>]

\* a counter after the first n turns of the loop
RECURSIVE Counted(_, _)
Counted(added, n) == IF n = 0 THEN 0 ELSE Counted(added, n - 1) + added[n]

\* the checks pushed in the first n turns of the loop
RECURSIVE Pushed(_, _)
Pushed(added, n) == IF n = 0 THEN << >> ELSE Pushed(added, n - 1) \o added[n]

\* scanExposedFiles(parsedUrl, options) for the statuses checkPath resolves to
scanExposedFiles(status, opts) ==
  LET scoredPaths == SelectSeq(SENSITIVE_PATHS, IsScored)
      batchSize == IF opts.concurrency = 0 THEN DefaultBatchSize ELSE opts.concurrency
      pathResults == CheckBatches(status, 1, batchSize)
      turns == [k \in DOMAIN pathResults |-> ScoreOne(pathResults[k])]
      n == Len(pathResults)
      score == Counted([k \in DOMAIN turns |-> turns[k].score], n)
      exposedCritical == Counted([k \in DOMAIN turns |-> turns[k].exposedCritical], n)
      exposedHigh == Counted([k \in DOMAIN turns |-> turns[k].exposedHigh], n)
      connectionFailures == Counted([k \in DOMAIN turns |-> turns[k].connectionFailures], n)
      totalScored == Len(SelectSeq(pathResults, LAMBDA r : r.severity # "info"))
      unreliable == IF 10 * connectionFailures > 8 * totalScored
                    THEN << "error" >> ELSE << >>
      sensitive == IF exposedCritical = 0 /\ exposedHigh = 0
                   THEN << "pass" >> ELSE << "fail" >>
  IN [score |-> score, maxScore |-> Len(scoredPaths),
      checks |-> sensitive \o unreliable \o Pushed([k \in DOMAIN turns |-> turns[k].checks], n)]

\* options.concurrency, 0 standing for none
ConcurrencyInputs == { 0, 4 }

\* the target stops or starts answering after the first n requests
CutoverVectors ==
  { [k \in DOMAIN SENSITIVE_PATHS |-> IF k <= n THEN a ELSE b] :
      n \in 0 .. Len(SENSITIVE_PATHS), a \in { 0, 404 }, b \in { 0, 404 } }

ExposedInit ==
  /\ ScanInit /\ ratio = NoRatio /\ grade = NoGrade /\ EntryIdle
  /\ \E base \in { 0, 404 } :
       call \in [fn : { "scanExposedFiles" },
                 status : StatusVectors(base, MaxDeviations) \cup CutoverVectors,
                 options : [concurrency : ConcurrencyInputs]]
  /\ ret = NoRet

ExposedCall ==
  /\ call.fn = "scanExposedFiles"
  /\ ret = NoRet
  /\ ret' = [fn |-> "scanExposedFiles", value |-> scanExposedFiles(call.status, call.options)]
  /\ UNCHANGED <<scanVars, ratio, grade, entryVars, call>>

ExposedNext == ExposedCall

ExposedSpec == ExposedInit /\ [][ExposedNext]_vars

----------------------------------------------------------------------------
(* exposed-files.js: checkPath.  call is the request and what the server     *)
(* answers to it, ret the request in progress.  The events of the response  *)
(* come in the order of the http client of Node.js 18 (README: Node.js     *)
(* 18.0.0 or higher): 'data' any number of times, then 'end' and 'close',   *)
(* or, when the connection closes before the end of the response, 'error'   *)
(* and then 'close'.                                                        *)

\* checkPath destroys the response once the body is longer than this
BodyLimit == 2000

LongText == "text of 2001 characters"

\* most chunks of a response body
MaxChunks == 2

ChunkInputs == { "A=1", "<html>", "text", LongText }

CheckPathInit ==
  /\ ScanInit /\ ratio = NoRatio /\ grade = NoGrade /\ EntryIdle
  /\ call \in [fn : { "checkPath" }, pathStr : { "/.env", "/phpinfo.php" },
               statusCode : { 200, 204, 301 }, chunks : StringsUpTo(ChunkInputs, MaxChunks)]
  /\ ret = NoRet

\* new Promise(...): the timer is armed and the request sent
CheckPathStart ==
  /\ call.fn = "checkPath"
  /\ ret = NoRet
  /\ ret' = [fn |-> "checkPath", req |-> "sent", res |-> "none", timer |-> "armed",
             body |-> << >>, resolved |-> FALSE, value |-> 0, resolves |-> 0, by |-> "none"]
  /\ UNCHANGED <<scanVars, ratio, grade, entryVars, call>>

Checking == call.fn = "checkPath" /\ ret.fn = "checkPath"

\* variant: the end of the response resolves with the status of the response
EndValue_Raw(statusCode, body, pathStr) == statusCode

\* what the 'data' and 'end' handlers pass to done
EndValue(statusCode, body, pathStr) == validateResponse(statusCode, body, pathStr)

\* done(val) after clearTimeout(timer)
Settle(r, by, val) ==
  LET cleared == [r EXCEPT !.timer = IF @ = "armed" THEN "cleared" ELSE @]
  IN IF r.resolved THEN cleared
     ELSE [cleared EXCEPT !.resolved = TRUE, !.value = val, !.resolves = @ + 1, !.by = by]

\* the response callback: the handlers of res are registered
PathResponse ==
  /\ Checking
  /\ ret.req = "sent"
  /\ ret' = [ret EXCEPT !.req = "response", !.res = "flowing"]
  /\ UNCHANGED <<scanVars, ratio, grade, entryVars, call>>

\* res.on('data')
PathData ==
  /\ Checking
  /\ ret.res = "flowing"
  /\ Len(ret.body) < Len(call.chunks)
  /\ LET body == Append(ret.body, call.chunks[Len(ret.body) + 1])
         r == [ret EXCEPT !.body = body]
     IN ret' = IF BodyLength(body) > BodyLimit
               THEN Settle([r EXCEPT !.res = "destroyed"], "data",
                           EndValue(call.statusCode, body, call.pathStr))
               ELSE r
  /\ UNCHANGED <<scanVars, ratio, grade, entryVars, call>>

\* res.on('end')
PathEnd ==
  /\ Checking
  /\ ret.res = "flowing"
  /\ Len(ret.body) = Len(call.chunks)
  /\ ret' = Settle([ret EXCEPT !.res = "ended"], "end",
                   EndValue(call.statusCode, ret.body, call.pathStr))
  /\ UNCHANGED <<scanVars, ratio, grade, entryVars, call>>

\* res.on('error'): the connection closed before the end of the response, or the request
\* was destroyed
PathResError ==
  /\ Checking
  /\ ret.res \in { "flowing", "aborted" }
  /\ ret' = Settle([ret EXCEPT !.res = "errored"], "error", 0)
  /\ UNCHANGED <<scanVars, ratio, grade, entryVars, call>>

\* res.on('close'), after 'end', after 'error' or after res.destroy()
PathClose ==
  /\ Checking
  /\ ret.res \in { "ended", "errored", "destroyed" }
  /\ ret' = Settle([ret EXCEPT !.res = "closed"], "close", call.statusCode)
  /\ UNCHANGED <<scanVars, ratio, grade, entryVars, call>>

\* req.on('error'): no response, or the request was destroyed before one
PathReqError ==
  /\ Checking
  /\ ret.req \in { "sent", "destroyed" }
  /\ ret' = Settle([ret EXCEPT !.req = "failed"], "error", 0)
  /\ UNCHANGED <<scanVars, ratio, grade, entryVars, call>>

\* req.on('timeout'): the socket was idle; req.destroy()
PathSocketTimeout ==
  /\ Checking
  /\ \/ ret.req = "sent"
     \/ ret.res = "flowing"
  /\ ret' = Settle([ret EXCEPT !.req = IF @ = "sent" THEN "destroyed" ELSE @,
                               !.res = IF @ = "flowing" THEN "aborted" ELSE @],
                   "timeout", 0)
  /\ UNCHANGED <<scanVars, ratio, grade, entryVars, call>>

\* the hard timeout fallback
PathTimer ==
  /\ Checking
  /\ ret.timer = "armed"
  /\ ret' = [Settle(ret, "timer", 0) EXCEPT !.timer = "fired"]
  /\ UNCHANGED <<scanVars, ratio, grade, entryVars, call>>

CheckPathNext ==
  \/ CheckPathStart
  \/ PathResponse
  \/ PathData
  \/ PathEnd
  \/ PathResError
  \/ PathClose
  \/ PathReqError
  \/ PathSocketTimeout
  \/ PathTimer

CheckPathSpec == CheckPathInit /\ [][CheckPathNext]_vars

----------------------------------------------------------------------------
(* exposed-files.js: the batches of scanExposedFiles and the connections of  *)
(* their requests.  The requests of a batch are counted, not told apart:    *)
(* pending are the requests whose promise has not resolved, lingering the   *)
(* requests whose promise has resolved and whose connection is still open.  *)

BatchSize(opts) == IF opts.concurrency = 0 THEN DefaultBatchSize ELSE opts.concurrency

BatchInit ==
  /\ ScanInit /\ ratio = NoRatio /\ grade = NoGrade /\ EntryIdle
  /\ call \in [fn : { "batches" }, options : [concurrency : ConcurrencyInputs]]
  /\ ret = [fn |-> "batches", issued |-> 0, pending |-> 0, lingering |-> 0, collected |-> 0,
            returned |-> FALSE]

Batching == call.fn = "batches" /\ ret.fn = "batches" /\ ~ret.returned

\* batch.map(...): checkPath sends one request for every entry of the next batch
BatchIssue ==
  /\ Batching
  /\ ret.pending = 0
  /\ ret.issued < Len(SENSITIVE_PATHS)
  /\ LET n == Min(BatchSize(call.options), Len(SENSITIVE_PATHS) - ret.issued)
     IN ret' = [ret EXCEPT !.issued = @ + n, !.pending = n]
  /\ UNCHANGED <<scanVars, ratio, grade, entryVars, call>>

\* a request resolves in a handler of its response or of the request: the response has
\* ended or was destroyed, or the request failed or was destroyed
RequestSettles ==
  /\ Batching
  /\ ret.pending > 0
  /\ ret' = [ret EXCEPT !.pending = @ - 1, !.collected = @ + 1]
  /\ UNCHANGED <<scanVars, ratio, grade, entryVars, call>>

\* the hard timeout fallback of a request resolves it: setTimeout(() => done(0), ...)
\* leaves the request as it is
RequestTimerFires ==
  /\ Batching
  /\ ret.pending > 0
  /\ ret' = [ret EXCEPT !.pending = @ - 1, !.lingering = @ + 1, !.collected = @ + 1]
  /\ UNCHANGED <<scanVars, ratio, grade, entryVars, call>>

\* the connection of a request that had resolved by its timer closes
LingeringCloses ==
  /\ call.fn = "batches"
  /\ ret.lingering > 0
  /\ ret' = [ret EXCEPT !.lingering = @ - 1]
  /\ UNCHANGED <<scanVars, ratio, grade, entryVars, call>>

\* the loop is over: the results are scored
BatchesDone ==
  /\ Batching
  /\ ret.pending = 0
  /\ ret.issued = Len(SENSITIVE_PATHS)
  /\ ret' = [ret EXCEPT !.returned = TRUE]
  /\ UNCHANGED <<scanVars, ratio, grade, entryVars, call>>

BatchNext ==
  \/ BatchIssue
  \/ RequestSettles
  \/ RequestTimerFires
  \/ LingeringCloses
  \/ BatchesDone

BatchSpec == BatchInit /\ [][BatchNext]_vars

----------------------------------------------------------------------------
(* The redirect-following fetches: fetchHeaders of the header probe,        *)
(* fetchCookies, fetchBody and fetchHeaders of the fingerprint probe.  call  *)
(* is the fetch and the server it meets: the server answers the first       *)
(* `redirects` requests with a redirect, or every request when it loops.    *)

Fetchers == { "headers", "cookies", "body", "fingerprint" }

\* the fetches that count their redirects in options._redirectCount
Counting == { "headers", "cookies" }

\* (options._redirectCount || 0) >= 5
RedirectCap == 5

\* longest chain of redirects of a server that does not loop
MaxChain == 7

\* the requests of one fetch are followed up to this many
MaxFetches == 8

FetchInit ==
  /\ ScanInit /\ ratio = NoRatio /\ grade = NoGrade /\ EntryIdle
  /\ call \in [fn : { "fetch" }, fetcher : Fetchers, loops : { FALSE }, redirects : 0 .. MaxChain]
            \cup [fn : { "fetch" }, fetcher : Fetchers, loops : { TRUE }, redirects : { 0 }]
  /\ ret = NoRet

\* the first request
FetchStart ==
  /\ call.fn = "fetch"
  /\ ret = NoRet
  /\ ret' = [fn |-> "fetch", requests |-> 1, redirectCount |-> 0, outstanding |-> TRUE,
             state |-> "pending", value |-> "none"]
  /\ UNCHANGED <<scanVars, ratio, grade, entryVars, call>>

Fetching == call.fn = "fetch" /\ ret.fn = "fetch"

\* the server answers the outstanding request with a 3xx and a Location
AnswersRedirect == call.loops \/ ret.requests <= call.redirects

\* resolve, reject or done of the outermost promise: the first one counts
SettleFetch(r, state, value) ==
  IF r.state = "pending" THEN [r EXCEPT !.state = state, !.value = value] ELSE r

\* variant: no limit
TooManyRedirects_Never(count) == FALSE

TooManyRedirects(count) == count >= RedirectCap

\* the response callback for a redirect
FetchRedirected ==
  /\ Fetching
  /\ ret.outstanding
  /\ AnswersRedirect
  /\ IF call.fetcher \in Counting /\ TooManyRedirects(ret.redirectCount)
     THEN ret' = SettleFetch([ret EXCEPT !.outstanding = FALSE],
                             IF call.fetcher = "headers" THEN "rejected" ELSE "resolved",
                             IF call.fetcher = "headers" THEN "Too many redirects" ELSE "[]")
     ELSE /\ ret.requests < MaxFetches
          /\ ret' = [ret EXCEPT !.requests = @ + 1,
                                !.redirectCount = IF call.fetcher \in Counting THEN @ + 1 ELSE @]
  /\ UNCHANGED <<scanVars, ratio, grade, entryVars, call>>

\* the response callback for any other response: the headers, cookies or body of it
FetchAnswered ==
  /\ Fetching
  /\ ret.outstanding
  /\ ~AnswersRedirect
  /\ ret' = SettleFetch([ret EXCEPT !.outstanding = FALSE], "resolved", "final response")
  /\ UNCHANGED <<scanVars, ratio, grade, entryVars, call>>

\* req.on('error') and req.on('timeout') of the outstanding request
FetchFails ==
  /\ Fetching
  /\ ret.outstanding
  /\ ret' = SettleFetch([ret EXCEPT !.outstanding = FALSE],
                        IF call.fetcher = "headers" \/ (call.fetcher = "cookies" /\ ret.redirectCount = 0)
                        THEN "rejected" ELSE "resolved",
                        CASE call.fetcher = "headers" -> "error"
                          [] call.fetcher = "cookies" ->
                               IF ret.redirectCount = 0 THEN "error" ELSE "[]"
                          [] call.fetcher = "body" -> ""
                          [] OTHER -> "null")
  /\ UNCHANGED <<scanVars, ratio, grade, entryVars, call>>

\* the hard timer of fetchBody and of the fingerprint fetchHeaders: done without
\* req.destroy()
FetchTimer ==
  /\ Fetching
  /\ call.fetcher \notin Counting
  /\ ret.outstanding
  /\ ret.state = "pending"
  /\ ret' = SettleFetch(ret, "resolved", IF call.fetcher = "body" THEN "" ELSE "null")
  /\ UNCHANGED <<scanVars, ratio, grade, entryVars, call>>

FetchNext ==
  \/ FetchStart
  \/ FetchRedirected
  \/ FetchAnswered
  \/ FetchFails
  \/ FetchTimer

FetchSpec == FetchInit /\ [][FetchNext]_vars

----------------------------------------------------------------------------
(* headers.js: scanHeaders.  A header value is one of a few texts, "" an     *)
(* absent header; every test of the code on a value is a table over these   *)
(* texts.  Scores are counted in halves.                                    *)

HstsValues ==
  { "", "max-age=31536000; includeSubDomains; preload", "max-age=31536000",
    "max-age=300", "max-age=0", "Max-Age=31536000; includeSubDomains; preload" }

\* parseInt((hsts.match(/max-age=(\d+)/) || [])[1] || '0'): the expression is case-sensitive
MaxAgeOf(hsts) ==
  CASE hsts \in { "max-age=31536000; includeSubDomains; preload", "max-age=31536000" } -> 31536000
    [] hsts = "max-age=300" -> 300
    [] OTHER -> 0

\* /includesubdomains/i and /preload/i
IncludesSubs(hsts) ==
  hsts \in { "max-age=31536000; includeSubDomains; preload",
             "Max-Age=31536000; includeSubDomains; preload" }

Preload(hsts) == IncludesSubs(hsts)

XctoValues == { "", "nosniff", "NoSniff", "none" }

\* xcto.toLowerCase() === 'nosniff'
IsNosniff(xcto) == xcto \in { "nosniff", "NoSniff" }

XfoValues == { "", "DENY", "sameorigin", "ALLOWALL" }

\* val === 'DENY' || val === 'SAMEORIGIN' with val = xfo.toUpperCase()
DeniesFraming(xfo) == xfo \in { "DENY", "sameorigin" }

CspValues ==
  { "", "default-src 'self'", "default-src 'self' 'unsafe-inline'", "frame-ancestors 'none'",
    "default-src 'self'; frame-ancestors 'none'" }

HasFrameAncestors(csp) ==
  csp \in { "frame-ancestors 'none'", "default-src 'self'; frame-ancestors 'none'" }

HasDefaultSrc(csp) ==
  csp \in { "default-src 'self'", "default-src 'self' 'unsafe-inline'",
            "default-src 'self'; frame-ancestors 'none'" }

HasUnsafe(csp) == csp = "default-src 'self' 'unsafe-inline'"

RpValues == { "", "strict-origin-when-cross-origin", "unsafe-url" }

\* goodPolicies.some(p => rp.toLowerCase().includes(p))
IsGoodPolicy(rp) == rp = "strict-origin-when-cross-origin"

\* permissions-policy and feature-policy
FeatureHeaders ==
  { [pp |-> "", fp |-> ""], [pp |-> "camera=()", fp |-> ""], [pp |-> "", fp |-> "camera 'none'"] }

\* x-xss-protection, server and x-powered-by
OtherHeaders ==
  { [xxss |-> "", server |-> "", powered |-> ""],
    [xxss |-> "0", server |-> "nginx", powered |-> ""],
    [xxss |-> "1; mode=block", server |-> "nginx/1.18.0", powered |-> ""],
    [xxss |-> "", server |-> "", powered |-> "PHP/8.1"],
    [xxss |-> "", server |-> "Apache/2.4.41", powered |-> "Express"] }

\* /\d/.test(server)
HasDigit(server) == server \in { "nginx/1.18.0", "Apache/2.4.41" }

HeaderInputs ==
  { [hsts |-> h, xcto |-> x, xfo |-> f, csp |-> c, rp |-> r, pp |-> p.pp, fp |-> p.fp,
     coop |-> o, corp |-> q, xxss |-> e.xxss, server |-> e.server, powered |-> e.powered] :
      h \in HstsValues, x \in XctoValues, f \in XfoValues, c \in CspValues, r \in RpValues,
      p \in FeatureHeaders, o \in { "", "same-origin" }, q \in { "", "same-site" },
      e \in OtherHeaders }

\* what a check adds: halves to the score and Findings to the checks
Adds(score, findings) == [score |-> score, checks |-> findings]

HstsCheck(h) ==
  IF h.hsts # ""
  THEN LET maxAge == MaxAgeOf(h.hsts)
       IN IF maxAge >= 31536000 /\ IncludesSubs(h.hsts) /\ Preload(h.hsts)
          THEN Adds(8, << Finding("Strict-Transport-Security", "pass") >>)
          ELSE IF maxAge >= 31536000
          THEN Adds(6, << Finding("Strict-Transport-Security", "pass") >>)
          ELSE IF maxAge > 0
          THEN Adds(2, << Finding("Strict-Transport-Security", "warn") >>)
          ELSE Adds(0, << >>)
  ELSE Adds(0, << Finding("Strict-Transport-Security", "fail") >>)

XctoCheck(h) ==
  IF h.xcto # "" /\ IsNosniff(h.xcto)
  THEN Adds(6, << Finding("X-Content-Type-Options", "pass") >>)
  ELSE Adds(0, << Finding("X-Content-Type-Options", "fail") >>)

XfoCheck(h) ==
  IF h.xfo # ""
  THEN IF DeniesFraming(h.xfo)
       THEN Adds(4, << Finding("X-Frame-Options", "pass") >>)
       ELSE Adds(2, << Finding("X-Frame-Options", "warn") >>)
  ELSE IF h.csp # "" /\ HasFrameAncestors(h.csp)
       THEN Adds(4, << Finding("X-Frame-Options", "pass") >>)
       ELSE Adds(0, << Finding("X-Frame-Options", "fail") >>)

RpCheck(h) ==
  IF h.rp # "" /\ IsGoodPolicy(h.rp)
  THEN Adds(4, << Finding("Referrer-Policy", "pass") >>)
  ELSE IF h.rp # ""
  THEN Adds(2, << Finding("Referrer-Policy", "warn") >>)
  ELSE Adds(0, << Finding("Referrer-Policy", "fail") >>)

CspCheck(h) ==
  IF h.csp # ""
  THEN IF HasDefaultSrc(h.csp) /\ ~HasUnsafe(h.csp)
       THEN Adds(4, << Finding("Content-Security-Policy", "pass") >>)
       ELSE Adds(2, << Finding("Content-Security-Policy", "warn") >>)
  ELSE Adds(0, << Finding("Content-Security-Policy", "warn") >>)

\* variant: the permissions-policy header alone
PpCheck_NoFeaturePolicy(h) ==
  IF h.pp # ""
  THEN Adds(2, << Finding("Permissions-Policy", "pass") >>)
  ELSE Adds(0, << Finding("Permissions-Policy", "warn") >>)

\* headers['permissions-policy'] || headers['feature-policy']
PpCheck(h) ==
  LET pp == IF h.pp # "" THEN h.pp ELSE h.fp
  IN IF pp # ""
     THEN Adds(2, << Finding("Permissions-Policy", "pass") >>)
     ELSE Adds(0, << Finding("Permissions-Policy", "warn") >>)

CoopCheck(h) ==
  IF h.coop # ""
  THEN Adds(1, << Finding("Cross-Origin-Opener-Policy", "pass") >>)
  ELSE Adds(0, << Finding("Cross-Origin-Opener-Policy", "info") >>)

CorpCheck(h) ==
  IF h.corp # ""
  THEN Adds(1, << Finding("Cross-Origin-Resource-Policy", "pass") >>)
  ELSE Adds(0, << Finding("Cross-Origin-Resource-Policy", "info") >>)

XxssCheck(h) ==
  IF h.xxss # "" /\ h.xxss # "0"
  THEN Adds(0, << Finding("X-XSS-Protection", "info") >>) ELSE Adds(0, << >>)

\* variant: the leaks cost half a point each
ServerCheck_Scored(h) ==
  IF h.server # "" /\ HasDigit(h.server)
  THEN Adds(-1, << Finding("Server Header", "warn") >>) ELSE Adds(0, << >>)

ServerCheck(h) ==
  IF h.server # "" /\ HasDigit(h.server)
  THEN Adds(0, << Finding("Server Header", "warn") >>) ELSE Adds(0, << >>)

PoweredCheck(h) ==
  IF h.powered # ""
  THEN Adds(0, << Finding("X-Powered-By", "warn") >>) ELSE Adds(0, << >>)

\* the checks of scanHeaders in their order
HeaderChecksOf(h) ==
  << HstsCheck(h), XctoCheck(h), XfoCheck(h), RpCheck(h), CspCheck(h), PpCheck(h),
     CoopCheck(h), CorpCheck(h), XxssCheck(h), ServerCheck(h), PoweredCheck(h) >>

\* maxScore += 4, 3, 2, 2, 2, 1, 0.5, 0.5, in halves
HeaderWeights == << 8, 6, 4, 4, 4, 2, 1, 1 >>

\* scanHeaders for the headers fetchHeaders resolved to
scanHeaders(h) ==
  LET added == HeaderChecksOf(h)
  IN [score |-> Counted([k \in DOMAIN added |-> added[k].score], Len(added)),
      maxScore |-> Counted(HeaderWeights, Len(HeaderWeights)),
      checks |-> Pushed([k \in DOMAIN added |-> added[k].checks], Len(added))]

HeadersInit ==
  /\ ScanInit /\ ratio = NoRatio /\ grade = NoGrade /\ EntryIdle
  /\ call \in [fn : { "scanHeaders" }, headers : HeaderInputs]
  /\ ret = NoRet

HeadersCall ==
  /\ call.fn = "scanHeaders"
  /\ ret = NoRet
  /\ ret' = [fn |-> "scanHeaders", value |-> scanHeaders(call.headers)]
  /\ UNCHANGED <<scanVars, ratio, grade, entryVars, call>>

HeadersNext == HeadersCall

HeadersSpec == HeadersInit /\ [][HeadersNext]_vars

----------------------------------------------------------------------------
(* ssl.js: scanSSL and getCertificateInfo.  Scores are counted in halves.   *)
(* What the handshake yields is drawn at Init: the days the certificate     *)
(* remains valid (dated FALSE: a certificate without dates, whose           *)
(* toISOString throws), whether it is self-signed, whether matchesDomain    *)
(* accepts the host name, the protocol and the cipher.                      *)

CertInputs ==
  [dated : BOOLEAN, days : { -1, 3, 20, 200 }, selfSigned : BOOLEAN, matches : BOOLEAN,
   protocol : { "TLSv1.3", "TLSv1.2", "TLSv1.1" }, cipher : { "", "AES256-GCM", "RC4" }]

\* err.code of the socket's error event
ErrorCodes == { "ECONNREFUSED", "ECONNRESET", "CERT_HAS_EXPIRED", "ERR_TLS_CERT_ALTNAME_INVALID" }

NoTlsError == [code |-> "", message |-> ""]

ValidityCheck(cert) ==
  IF cert.days < 0 THEN Adds(0, << Finding("Certificate Validity", "fail") >>)
  ELSE IF cert.days < 7 THEN Adds(1, << Finding("Certificate Validity", "fail") >>)
  ELSE IF cert.days < 30 THEN Adds(2, << Finding("Certificate Validity", "warn") >>)
  ELSE Adds(4, << Finding("Certificate Validity", "pass") >>)

IssuerCheck(cert) ==
  IF cert.selfSigned THEN Adds(0, << Finding("Certificate Issuer", "warn") >>)
  ELSE Adds(1, << Finding("Certificate Issuer", "pass") >>)

SubjectCheck(cert) ==
  IF cert.matches THEN Adds(2, << Finding("Hostname Match", "pass") >>)
  ELSE Adds(0, << Finding("Hostname Match", "fail") >>)

VersionCheck(cert) ==
  IF cert.protocol = "TLSv1.3" THEN Adds(3, << Finding("TLS Version", "pass") >>)
  ELSE IF cert.protocol = "TLSv1.2" THEN Adds(2, << Finding("TLS Version", "pass") >>)
  ELSE Adds(0, << Finding("TLS Version", "fail") >>)

\* /AES.*(256|GCM)|CHACHA20/i
CipherCheck(cert) ==
  IF cert.cipher # ""
  THEN IF cert.cipher = "AES256-GCM" THEN Adds(2, << Finding("Cipher Suite", "pass") >>)
       ELSE Adds(1, << Finding("Cipher Suite", "warn") >>)
  ELSE Adds(0, << >>)

\* maxScore += 2, 0.5, 1, 1.5, 1, in halves
TlsWeights == << 4, 1, 2, 3, 2 >>

\* the body of the try block once getCertificateInfo has resolved
Evaluated(cert) ==
  LET added == << ValidityCheck(cert), IssuerCheck(cert), SubjectCheck(cert), VersionCheck(cert),
                  CipherCheck(cert) >>
  IN [score |-> Counted([k \in DOMAIN added |-> added[k].score], Len(added)),
      maxScore |-> Counted(TlsWeights, Len(TlsWeights)),
      checks |-> Pushed([k \in DOMAIN added |-> added[k].checks], Len(added))]

\* variant: every exception is reported with status error
Caught_AlwaysError(err) ==
  [score |-> 0, maxScore |-> 10, checks |-> << Finding("SSL/TLS Connection", "error") >>]

\* the catch block; nothing was pushed and nothing scored when the exception is thrown
Caught(err) ==
  [score |-> 0, maxScore |-> 10,
   checks |-> IF err.code \in { "CERT_HAS_EXPIRED", "ERR_TLS_CERT_ALTNAME_INVALID" }
              THEN << Finding("Certificate", "fail") >>
              ELSE << Finding("SSL/TLS Connection", "error") >>]

SslInit ==
  /\ ScanInit /\ ratio = NoRatio /\ grade = NoGrade /\ EntryIdle
  /\ call \in [fn : { "scanSSL" }, protocol : { "https:", "http:" }, cert : CertInputs]
  /\ ret = NoRet

\* scanSSL up to the await: the plain-http return, or tls.connect
ScanSSLStart ==
  /\ call.fn = "scanSSL"
  /\ ret = NoRet
  /\ ret' = IF call.protocol # "https:"
            THEN [fn |-> "scanSSL", state |-> "returned", socket |-> "none", err |-> NoTlsError,
                  result |-> [score |-> 0, maxScore |-> 10,
                              checks |-> << Finding("HTTPS", "fail") >>]]
            ELSE [fn |-> "scanSSL", state |-> "connecting", socket |-> "open", err |-> NoTlsError,
                  result |-> NoRedirectResult]
  /\ UNCHANGED <<scanVars, ratio, grade, entryVars, call>>

Connecting == ret.fn = "scanSSL" /\ ret.state = "connecting" /\ ret.socket = "open"

\* the secureConnect callback: socket.destroy(), resolve
TlsSecureConnect ==
  /\ Connecting
  /\ ret' = [ret EXCEPT !.state = "resolved", !.socket = "destroyed"]
  /\ UNCHANGED <<scanVars, ratio, grade, entryVars, call>>

\* socket.on('error'): socket.destroy(), reject(err)
TlsSocketError(code) ==
  /\ Connecting
  /\ ret' = [ret EXCEPT !.state = "rejected", !.socket = "destroyed",
                        !.err = [code |-> code, message |-> code]]
  /\ UNCHANGED <<scanVars, ratio, grade, entryVars, call>>

\* socket.on('timeout'): socket.destroy(), reject(new Error('TLS connection timeout'))
TlsSocketTimeout ==
  /\ Connecting
  /\ ret' = [ret EXCEPT !.state = "rejected", !.socket = "destroyed",
                        !.err = [code |-> "", message |-> "TLS connection timeout"]]
  /\ UNCHANGED <<scanVars, ratio, grade, entryVars, call>>

\* scanSSL after the await
ScanSSLFinish ==
  /\ ret.fn = "scanSSL"
  /\ ret.state \in { "resolved", "rejected" }
  /\ ret' = [ret EXCEPT
       !.state = "returned",
       !.err = IF ret.state = "resolved" /\ ~call.cert.dated
               THEN [code |-> "", message |-> "Invalid time value"] ELSE ret.err,
       !.result = IF ret.state = "rejected" THEN Caught(ret.err)
                  ELSE IF ~call.cert.dated
                  THEN Caught([code |-> "", message |-> "Invalid time value"])
                  ELSE Evaluated(call.cert)]
  /\ UNCHANGED <<scanVars, ratio, grade, entryVars, call>>

SslNext ==
  \/ ScanSSLStart
  \/ TlsSecureConnect
  \/ \E code \in ErrorCodes : TlsSocketError(code)
  \/ TlsSocketTimeout
  \/ ScanSSLFinish

SslSpec == SslInit /\ [][SslNext]_vars

Returned == results.state = "returned"

EnabledNames == { enabledScanners[i].name : i \in DOMAIN enabledScanners }

WeightOf(name) == allScanners[CHOOSE i \in DOMAIN allScanners : allScanners[i].name = name].weight

Threw(name) == probe[name].state = "rejected"

TimedOut(name) == timer[name] = "fired"

SectionsOf(name) == { k \in DOMAIN results.sections : results.sections[k].name = name }

\* C1: every returned Report has exactly one section for each enabled scanner and none
\* for a disabled one, and the section of a scanner that threw or ran into its deadline
\* has score 0, maxScore equal to the scanner's weight and exactly one check, of status
\* error.
C1_OneSectionPerEnabledProbe ==
  Returned =>
    /\ Len(results.sections) = Len(enabledScanners)
    /\ \A n \in ScannerNames :
         Cardinality(SectionsOf(n)) = IF n \in EnabledNames THEN 1 ELSE 0
    /\ \A k \in DOMAIN results.sections :
         LET sec == results.sections[k]
         IN  (Threw(sec.name) \/ TimedOut(sec.name)) =>
               /\ sec.score = 0
               /\ sec.maxScore = WeightOf(sec.name)
               /\ Len(sec.checks) = 1
               /\ sec.checks[1].status = "error"

\* a Report of all nine scanners in which one scanner threw and another timed out
C1_Witness ==
  /\ Returned
  /\ Len(enabledScanners) = 9
  /\ \E n \in EnabledNames : Threw(n)
  /\ \E n \in EnabledNames : TimedOut(n)

\* the section a scanner gets, as a function of that scanner's own outcome only
OwnSection(name) ==
  LET w == WeightOf(name)
      r == probe[name].result
  IN  IF probe[name].state = "fulfilled"
      THEN [ name |-> name, score |-> Round10(NormalizedScore(r, w)), maxScore |-> w,
             grade |-> IF r.maxScore > 0 THEN calculateGrade(<< r.score, r.maxScore >>) ELSE "F",
             checks |-> r.checks ]
      ELSE [ name |-> name, score |-> 0, maxScore |-> w, grade |-> "F",
             checks |-> << [ name |-> name, status |-> "error",
                             message |-> IF TimedOut(name) THEN TimeoutMessage
                                         ELSE probe[name].message ] >> ]

\* C2: a scanner that throws or exceeds its deadline never makes scan() throw, every
\* other enabled scanner still runs to its own completion or deadline, and the section
\* of every scanner is determined by that scanner's own outcome alone.
C2_ProbeIsolation ==
  /\ pc = "threw" => \A n \in ScannerNames : probe[n].state = "idle"
  /\ Returned =>
       \A n \in EnabledNames :
         /\ probe[n].state \in { "fulfilled", "rejected" } \/ TimedOut(n)
         /\ \A k \in SectionsOf(n) : results.sections[k] = OwnSection(n)

\* a Report in which one scanner failed next to scanners that fulfilled
C2_Witness ==
  /\ Returned
  /\ \E n \in EnabledNames : Threw(n)
  /\ \E n \in EnabledNames : TimedOut(n)
  /\ \E n \in EnabledNames : probe[n].state = "fulfilled" /\ probe[n].result.score > 0

\* C3: the Report is returned only after every enabled scanner has settled or reached
\* its deadline.
C3_ReportAfterAllSettled ==
  (pc = "done" \/ Returned) => \A n \in EnabledNames : ~RacePending(n)

\* a returned Report whose scanners finished out of declaration order, one by deadline
C3_Witness ==
  /\ pc = "done"
  /\ reordered
  /\ \E n \in EnabledNames : TimedOut(n)
  /\ \E n \in EnabledNames : probe[n].state = "fulfilled"

DeclaredNames == [ i \in DOMAIN allScanners |-> allScanners[i].name ]

\* C4: the sections of the Report are in the declaration order of the enabled scanners,
\* whatever the order in which the scanners completed, failed or timed out.
C4_SectionsInDeclarationOrder ==
  Returned =>
    [ k \in DOMAIN results.sections |-> results.sections[k].name ]
      = SelectSeq(DeclaredNames, LAMBDA n : n \in EnabledNames)

\* a Report of a scan whose scanners did not complete in declaration order
C4_Witness ==
  /\ Returned
  /\ reordered
  /\ Len(results.sections) = 9
  /\ \E n \in EnabledNames : TimedOut(n)

\* C5: once the preflight has succeeded scan() eventually returns a Report, also when
\* the promise of a scanner never settles: its deadline resolves it as an error section.
C5_ScanTerminates == (pc = "running") ~> (pc = "done" /\ Returned)

\* a returned Report with a scanner that never settled and was cut off by its deadline
C5_Witness ==
  /\ pc = "done"
  /\ Returned
  /\ \E n \in EnabledNames :
       /\ probe[n].state = "pending"
       /\ TimedOut(n)
       /\ \E k \in SectionsOf(n) : results.sections[k].checks[1].status = "error"

RECURSIVE SumWeights(_)
SumWeights(names) ==
  IF names = {} THEN 0
  ELSE LET n == CHOOSE x \in names : TRUE IN WeightOf(n) + SumWeights(names \ { n })

\* C6: the composite maxScore of every Report is the sum of the declared weights of the
\* enabled scanners, whatever the scanners returned.
C6_CompositeMaxIsSumOfWeights ==
  Returned => results.maxScore = SumWeights(EnabledNames)

\* a Report with a scanner that timed out and a scanner whose raw maxScore is 0
C6_Witness ==
  /\ Returned
  /\ \E n \in EnabledNames : TimedOut(n)
  /\ \E n \in EnabledNames : probe[n].state = "fulfilled" /\ probe[n].result.maxScore = 0

\* C7: the displayed score of every section (tenths) is at most the section's weight,
\* and the section's maxScore is that weight.
C7_DisplayedScoreAtMostWeight ==
  Returned =>
    \A k \in DOMAIN results.sections :
      /\ results.sections[k].maxScore = WeightOf(results.sections[k].name)
      /\ results.sections[k].score <= 10 * results.sections[k].maxScore
      /\ results.sections[k].score >= 0

\* a Report with a section at exactly its weight and a section whose score rounds up
C7_Witness ==
  /\ Returned
  /\ \E k \in DOMAIN results.sections :
       results.sections[k].score = 10 * results.sections[k].maxScore
  /\ \E n \in EnabledNames :
       /\ probe[n].state = "fulfilled"
       /\ probe[n].result.maxScore > 0
       /\ \E k \in SectionsOf(n) :
            results.sections[k].score * probe[n].result.maxScore
              > 10 * probe[n].result.score * WeightOf(n)

GradeRank(g) ==
  CASE g = "F" -> 0 [] g = "D" -> 1 [] g = "C" -> 2 [] g = "B" -> 3 [] g = "A" -> 4 [] g = "A+" -> 5

\* r >= p / 100 for the ratio r
AtLeast(r, p) == 100 * r[1] >= p * r[2]

\* C8: calculateGrade(r) is A+ iff r >= 0.95, A iff 0.85 <= r < 0.95, B iff
\* 0.70 <= r < 0.85, C iff 0.55 <= r < 0.70, D iff 0.40 <= r < 0.55, F otherwise; it is
\* monotone in r.
C8_GradeThresholds ==
  grade # NoGrade =>
    /\ (grade = "A+") <=> AtLeast(ratio, 95)
    /\ (grade = "A")  <=> (AtLeast(ratio, 85) /\ ~AtLeast(ratio, 95))
    /\ (grade = "B")  <=> (AtLeast(ratio, 70) /\ ~AtLeast(ratio, 85))
    /\ (grade = "C")  <=> (AtLeast(ratio, 55) /\ ~AtLeast(ratio, 70))
    /\ (grade = "D")  <=> (AtLeast(ratio, 40) /\ ~AtLeast(ratio, 55))
    /\ (grade = "F")  <=> ~AtLeast(ratio, 40)
    /\ \A r \in RatioInputs :
         r[1] * ratio[2] >= ratio[1] * r[2] => GradeRank(calculateGrade(r)) >= GradeRank(grade)

\* calculateGrade was called with a ratio that is exactly a threshold
C8_Witness ==
  /\ grade = "A+"
  /\ ratio = << 19, 20 >>

\* the exact normalised score of a scanner, from that scanner's own outcome
OwnNormalized(name) ==
  IF probe[name].state = "fulfilled" /\ probe[name].result.maxScore > 0
  THEN << probe[name].result.score * WeightOf(name), probe[name].result.maxScore >>
  ELSE << 0, 1 >>

RECURSIVE SumNormalized(_)
SumNormalized(names) ==
  IF names = {} THEN << 0, 1 >>
  ELSE LET n == CHOOSE x \in names : TRUE
       IN  FracAdd(OwnNormalized(n), SumNormalized(names \ { n }))

\* the exact ratio of the unrounded composite score to the composite maxScore
ExactCompositeRatio ==
  << SumNormalized(EnabledNames)[1], SumNormalized(EnabledNames)[2] * SumWeights(EnabledNames) >>

\* C9 as stated: the composite grade is calculateGrade(report.score / report.maxScore)
\* of the Report's own (displayed) score, and every section's grade is calculateGrade of
\* that section's own score / maxScore.
C9_GradeOfReportedScore ==
  Returned =>
    /\ results.grade = calculateGrade(<< results.score, 10 * results.maxScore >>)
    /\ \A k \in DOMAIN results.sections :
         results.sections[k].grade
           = calculateGrade(<< results.sections[k].score, 10 * results.sections[k].maxScore >>)

\* C9 (amended): the composite grade is calculateGrade of the unrounded sum of the
\* normalised scores divided by maxScore, and every section's grade is calculateGrade of
\* the unrounded normalised score divided by the weight (the raw score / raw maxScore, 0
\* when the raw maxScore is 0); the reported scores are these values rounded to one
\* decimal.
C9_GradeOfUnroundedRatio ==
  Returned =>
    /\ results.grade = calculateGrade(ExactCompositeRatio)
    /\ results.score = Round10(SumNormalized(EnabledNames))
    /\ \A n \in EnabledNames : \A k \in SectionsOf(n) :
         /\ results.sections[k].grade
              = calculateGrade(<< OwnNormalized(n)[1], OwnNormalized(n)[2] * WeightOf(n) >>)
         /\ results.sections[k].score = Round10(OwnNormalized(n))

\* a Report with a section whose grade differs from the grade of its displayed score
C9_Witness ==
  /\ Returned
  /\ \E k \in DOMAIN results.sections :
       results.sections[k].grade
         # calculateGrade(<< results.sections[k].score, 10 * results.sections[k].maxScore >>)

\* the preflight event is one the claim names as fatal
FatalEvent(ev) ==
  \/ ev.type \in { "timer", "timeout" }
  \/ /\ ev.type = "error"
     /\ ev.code \in { "ENOTFOUND", "EAI_AGAIN", "ECONNREFUSED", "ECONNRESET", "ETIMEDOUT" }

NoProbeStarted == \A n \in ScannerNames : probe[n].state = "idle" /\ timer[n] = "unset"

\* scan() resumes from the preflight: it throws iff the event was fatal, and otherwise
\* starts every enabled scanner
C10_PreflightStep ==
  (pc = "preflight" /\ pc' # "preflight") =>
    IF FatalEvent(preflight)
    THEN pc' = "threw" /\ thrown' = preflight.code
    ELSE /\ pc' = "running"
         /\ \A n \in Range(AllowedScanners(options)) : probe'[n].state = "pending"
         /\ \A n \in ScannerNames \ Range(AllowedScanners(options)) : probe'[n].state = "idle"

\* once the scanners are started scan() does not throw, and a throw leaves no Report
C10_AfterPreflight ==
  /\ pc \in { "running", "done" } => pc' # "threw"
  /\ pc' = "threw" => results' = NoReport /\ NoProbeStarted'

\* C10 as stated: scan() throws, with no Report and no scanner started, if and only if
\* the preflight fails with ENOTFOUND, EAI_AGAIN, ECONNREFUSED, ECONNRESET, ETIMEDOUT or
\* times out; for every other preflight outcome every enabled scanner is started.
C10_ThrowsIffPreflightFatal ==
  /\ [](pc = "threw" => thrown \in FatalCodes /\ preflight = Consumed)
  /\ [][C10_PreflightStep /\ C10_AfterPreflight]_vars

\* C10 (amended): scan() throws, with no Report and no scanner started, if and only if
\* the url cannot be parsed (before any preflight request) or the preflight fails with
\* one of the five codes or times out; for every other preflight outcome every enabled
\* scanner is started and scan() does not throw afterwards.
C10_ThrowsIffBadUrlOrPreflightFatal ==
  /\ [](pc = "threw" =>
          \/ thrown = "ERR_INVALID_URL" /\ preflight = Unsent
          \/ thrown \in FatalCodes /\ preflight = Consumed)
  /\ [][C10_PreflightStep /\ C10_AfterPreflight]_vars

\* scan() threw on a refused connection of the preflight
C10_Witness ==
  /\ pc = "threw"
  /\ thrown = "ECONNREFUSED"
  /\ preflight = Consumed
  /\ NoProbeStarted

----------------------------------------------------------------------------
(* C11: the enabled set as a function of (tier, full) *)

FreeProbes == { "headers", "ssl", "server" }

ProProbes == { "headers", "ssl", "cookies", "server", "exposedFiles", "dns", "sri",
               "mixedContent", "redirects" }

\* the set the claim assigns to an options record
ClaimedProbes(opts) == IF opts.full \/ opts.tier = "pro" THEN ProProbes ELSE FreeProbes

\* scan() resumes from a successful preflight and selects the scanners to run
C11_SelectStep ==
  (pc = "preflight" /\ pc' = "running") =>
    /\ EnabledNames' = ClaimedProbes(options)
    /\ Len(enabledScanners') = Cardinality(ClaimedProbes(options))

\* C11: the enabled scanners are a function of (tier, full): tier free, absent or
\* unknown without full enables exactly headers, ssl and server; tier pro, or full with
\* any tier, enables all nine scanners; the free set is a subset of the pro set.
C11_EnabledSetByTier ==
  /\ [][C11_SelectStep]_vars
  /\ [](\A opts \in OptionInputs :
          /\ Range(AllowedScanners([opts EXCEPT !.tier = "free", !.full = FALSE]))
               \subseteq Range(AllowedScanners([opts EXCEPT !.tier = "pro"]))
          /\ Range(AllowedScanners(opts)) = ClaimedProbes(opts))

\* a scan of exactly the three free scanners is running
C11_Witness ==
  /\ pc = "running"
  /\ EnabledNames = FreeProbes
  /\ \A n \in ScannerNames : (probe[n].state = "pending") = (n \in FreeProbes)

----------------------------------------------------------------------------
(* C12: the free tier never runs a Pro-only scanner *)

ProOnlyProbes == ProProbes \ FreeProbes

\* C12: a scan started while the license tier is free never runs a Pro-only scanner
\* (cookies, exposedFiles, dns, sri, mixedContent, redirects), whichever entry point
\* starts it and whatever flags or tool arguments are passed: a request for a full scan
\* on the free tier is rejected without scanning.
C12_FreeTierNeverRunsProProbes ==
  \A r \in DOMAIN req :
     license = "free" =>
       /\ req[r].ran \cap ProOnlyProbes = { }
       /\ (req[r].full /\ req[r].state \notin { "new", "looping" }) =>
             /\ req[r].state = "done"
             /\ req[r].ran = { }
             /\ req[r].error # ""

----------------------------------------------------------------------------
(* C13: the daily limit of the free tier *)

\* C13: on the free tier, for any sequence or interleaving of scan requests made through
\* the CLI, the batch mode and the MCP scan and generate_fixes tools, at most
\* FREE_DAILY_LIMIT scans complete successfully on the same day; a request made once
\* FREE_DAILY_LIMIT scans are recorded for the day is rejected with a rate-limit error
\* without running a scan.
C13_AtMostThreeScansPerDay ==
  license = "free" =>
    /\ Len(TodayScans(usage, today)) <= FREE_DAILY_LIMIT
    /\ \A r \in DOMAIN req :
         req[r].over =>
           /\ req[r].state # "scanning"
           /\ req[r].error \in { "ERR_RATE_LIMIT", "ERR_BAD_ARGS" }

----------------------------------------------------------------------------
(* C14: exit code 0 of the CLI single scan *)

\* C14: the CLI single scan exits with code 0 only when the scan completed and found no
\* security issue: in every run that exits 0 outside --ci mode, no section of the Report
\* contains a finding of status fail or of status error.
C14_ExitZeroMeansNoFailNoError ==
  \A r \in DOMAIN req :
     (req[r].entry = "cli" /\ req[r].state = "done" /\ req[r].exit = EXIT.SUCCESS
        /\ req[r].ci = "off") =>
       /\ req[r].ran # { }
       /\ ~req[r].failFinding
       /\ ~req[r].errorFinding

----------------------------------------------------------------------------
(* C15: the wildcard of the TLS hostname matcher *)

\* hostname is exactly one non-empty label followed by "." and suffix
OneLabelThenSuffix(hostname, suffix) ==
  \E n \in 1 .. Len(hostname) :
     /\ \A i \in 1 .. n : hostname[i] # "."
     /\ Slice(hostname, n) = << "." >> \o suffix

\* C15: the TLS hostname matcher accepts a wildcard pattern *.<suffix> for a hostname if
\* and only if the hostname is exactly one non-empty label followed by "." and <suffix>;
\* it matches no hostname with more labels, fewer labels or a different parent domain.
C15_WildcardMatchesOneLabel ==
  (ret.fn = "matchesDomain" /\ StartsWith(call.pattern, << "*", "." >>)) =>
    (ret.value <=> OneLabelThenSuffix(ToLowerCase(call.hostname),
                                      ToLowerCase(Slice(call.pattern, 2))))

----------------------------------------------------------------------------
(* C16: soft 404 *)

Is2xx(statusCode) == statusCode >= 200 /\ statusCode < 300

\* tokens carrying a not-found, 404 or error marker
ErrorMarkers == { "404", "error", "Error Log" }

\* the body has one of the markers between an opening and a closing tag
MarkerInside(body, open, close, markers) ==
  \E i, j, k \in DOMAIN body :
     i < j /\ j < k /\ body[i] = open /\ body[j] \in markers /\ body[k] = close

Validated == ret.fn = "validateResponse"

\* C16 as stated: the classifier returns 404 for every probed path when the response has
\* a 2xx status and a body that is shorter than 5 characters or contains a not-found, 404
\* or error marker in its title or h1; it returns every non-2xx status unchanged.
C16_SoftNotFound ==
  Validated =>
    /\ (Is2xx(call.statusCode)
          /\ \/ BodyLength(call.body) < 5
             \/ MarkerInside(call.body, "<title>", "</title>", ErrorMarkers)
             \/ MarkerInside(call.body, "<h1>", "</h1>", ErrorMarkers))
         => ret.value = 404
    /\ ~Is2xx(call.statusCode) => ret.value = call.statusCode

\* C16 (amended): the classifier returns 404 for every probed path when the response has
\* a 2xx status and a body that is shorter than 5 characters, or has on one line a title
\* with a 404, not-found, error or oops marker, or has on one line an h1 with a 404 or
\* not-found marker; it returns every non-2xx status unchanged.
C16_SoftNotFoundOnOneLine ==
  Validated =>
    /\ (Is2xx(call.statusCode)
          /\ \/ BodyLength(call.body) < 5
             \/ TagHasMarker(call.body, "<title>", "</title>", ErrorMarkers)
             \/ TagHasMarker(call.body, "<h1>", "</h1>", { "404" }))
         => ret.value = 404
    /\ ~Is2xx(call.statusCode) => ret.value = call.statusCode

\* a 200 response to /phpinfo.php with a 404 heading was classified 404
C16_Witness ==
  /\ Validated
  /\ call.statusCode = 200
  /\ call.pathStr = "/phpinfo.php"
  /\ call.body = << "<h1>", "404", "</h1>" >>
  /\ ret.value = 404


----------------------------------------------------------------------------
(* C17: /.env and the non-HTML artifacts *)

\* tokens of the KEY=value shape
KeyValueShapes == { "A=1" }

NoMarker(body) ==
  /\ ~MarkerInside(body, "<title>", "</title>", ErrorMarkers)
  /\ ~MarkerInside(body, "<h1>", "</h1>", ErrorMarkers)

\* C17 as stated: for /.env the classifier returns the 2xx status for a body that is not
\* HTML, has no not-found marker and contains a KEY=value shape, and 404 for an HTML body;
\* a 2xx HTML body for any path of the non-HTML artifact list is downgraded to 404.
C17_EnvExposedUnlessHtml ==
  (Validated /\ Is2xx(call.statusCode)) =>
    /\ (call.pathStr = "/.env" /\ ~IsHtmlResponse(call.body) /\ NoMarker(call.body)
          /\ Contains(call.body, KeyValueShapes))
         => ret.value = call.statusCode
    /\ (call.pathStr \in nonHtmlFiles /\ IsHtmlResponse(call.body)) => ret.value = 404

\* C17 (amended): for /.env the classifier returns the 2xx status for a body of at least
\* 5 characters that is not HTML, has no not-found marker and contains a KEY=value shape,
\* and 404 for an HTML body; a 2xx HTML body for any path of the non-HTML artifact list
\* is downgraded to 404.
C17_EnvExposedIfLongEnough ==
  (Validated /\ Is2xx(call.statusCode)) =>
    /\ (call.pathStr = "/.env" /\ ~IsHtmlResponse(call.body) /\ NoMarker(call.body)
          /\ Contains(call.body, KeyValueShapes) /\ BodyLength(call.body) >= 5)
         => ret.value = call.statusCode
    /\ (call.pathStr \in nonHtmlFiles /\ IsHtmlResponse(call.body)) => ret.value = 404

\* a 200 response to /.env with two KEY=value lines was classified exposed
C17_Witness ==
  /\ Validated
  /\ call.statusCode = 200
  /\ call.pathStr = "/.env"
  /\ call.body = << "A=1", NewLine, "A=1" >>
  /\ ret.value = 200


----------------------------------------------------------------------------
(* C18: open redirects *)

Is3xx(statusCode) == statusCode >= 300 /\ statusCode < 400

\* a Location that is a relative reference: it has no scheme
IsRelative(location) == location # NoLocation /\ location.scheme = ""

\* a relative reference without authority: a path on the host of the request
IsPathRelative(location) == IsRelative(location) /\ location.host = ""

\* the settled test got a 3xx response whose Location resolves to the marker hostname
RedirectsToMarker(t) ==
  /\ t.by = "response"
  /\ Is3xx(t.statusCode)
  /\ t.location # NoLocation
  /\ ~UrlThrows(t.location)
  /\ ResolvedHostname(t.location, TestUrl(call, t.param)) = "evil.example.com"

BackToOriginalHost(t) ==
  /\ t.location # NoLocation
  /\ ~UrlThrows(t.location)
  /\ ResolvedHostname(t.location, TestUrl(call, t.param)) = call.hostname

SettledTests == { i \in Tests : ret.tests[i].state = "resolved" }

CountedAsClaimed ==
  (ret.fn = "scanRedirects" /\ ret.result # NoRedirectResult) =>
    /\ ret.result.score = ret.result.maxScore
                            - Cardinality({ i \in Tests : RedirectsToMarker(ret.tests[i]) })
    /\ (ret.result.status = "fail") <=> (\E i \in Tests : RedirectsToMarker(ret.tests[i]))

----------------------------------------------------------------------------
(* C19: admin panels *)

HasFingerprint(body, pathStr) == \E i \in DOMAIN body : body[i] \in PanelIndicators(pathStr)

AdminValidated == Validated /\ call.pathStr \in adminPaths /\ Is2xx(call.statusCode)

\* C19 as stated: for every admin panel path the classifier returns a 2xx status only if
\* the body contains the fingerprint of the panel; any 2xx response without the
\* fingerprint, HTML or not, is downgraded to 404.
C19_FingerprintRequired ==
  AdminValidated =>
    /\ Is2xx(ret.value) => HasFingerprint(call.body, call.pathStr)
    /\ ~HasFingerprint(call.body, call.pathStr) => ret.value = 404

\* C19 (amended): for every admin panel path and every 2xx response with an HTML body the
\* classifier returns a 2xx status only if the body contains the fingerprint of the panel,
\* and 404 without it; a body that is not HTML, has 5 characters or more and no soft-404
\* title or h1 keeps its 2xx status, with or without the fingerprint.
C19_FingerprintRequiredOfHtml ==
  AdminValidated =>
    /\ IsHtmlResponse(call.body) =>
         /\ Is2xx(ret.value) => HasFingerprint(call.body, call.pathStr)
         /\ ~HasFingerprint(call.body, call.pathStr) => ret.value = 404
    /\ (~IsHtmlResponse(call.body) /\ BodyLength(call.body) >= 5
          /\ ~TagHasMarker(call.body, "<title>", "</title>", TitleMarkers)
          /\ ~TagHasMarker(call.body, "<h1>", "</h1>", H1Markers))
         => ret.value = call.statusCode

\* a 200 response to /wp-admin/ with an HTML body without the fingerprint was classified 404
C19_Witness ==
  /\ Validated
  /\ call.statusCode = 200
  /\ call.pathStr = "/wp-admin/"
  /\ call.body = << "<html>", "text", "text" >>
  /\ ret.value = 404


----------------------------------------------------------------------------
(* C20: the score of the exposed paths *)

Scanned == ret.fn = "scanExposedFiles"

Exposed(k) == call.status[k] >= 200 /\ call.status[k] < 300

CatalogOf(severities) == { k \in DOMAIN SENSITIVE_PATHS : SENSITIVE_PATHS[k].severity \in severities }

\* C20 as stated: maxScore is the number of critical, high and medium paths, and the score
\* is the sum over those paths of 1 for a critical or high path that is not exposed, 0 for
\* one that is, 1 for a medium path that is not exposed and 0.5 for one that is; low and
\* info paths change neither, and only a 2xx status counts as exposed.
C20_ScoreBySeverity ==
  Scanned =>
    /\ ret.value.maxScore = Cardinality(CatalogOf({ "critical", "high", "medium" }))
    /\ ret.value.score =
         2 * Cardinality({ k \in CatalogOf({ "critical", "high", "medium" }) : ~Exposed(k) })
           + Cardinality({ k \in CatalogOf({ "medium" }) : Exposed(k) })

\* C20 (amended): as stated, except that a critical, high or medium path whose request got
\* no answer (status 0) scores 0, not 1.
C20_ScoreBySeverityOfAnswers ==
  Scanned =>
    /\ ret.value.maxScore = Cardinality(CatalogOf({ "critical", "high", "medium" }))
    /\ ret.value.score =
         2 * Cardinality({ k \in CatalogOf({ "critical", "high", "medium" }) :
                             ~Exposed(k) /\ call.status[k] > 0 })
           + Cardinality({ k \in CatalogOf({ "medium" }) : Exposed(k) })

\* a scan found a critical and a medium path exposed and every other path answered 404:
\* 26 + 0.5 of 28
C20_Witness ==
  /\ Scanned
  /\ \E c \in CatalogOf({ "critical" }), m \in CatalogOf({ "medium" }) :
       /\ call.status[c] = 200 /\ call.status[m] = 200
       /\ \A k \in DOMAIN SENSITIVE_PATHS : k \notin { c, m } => call.status[k] = 404
  /\ ret.value.score = 53
  /\ ret.value.maxScore = 28


----------------------------------------------------------------------------
(* C21: the reliability guard *)

ScoredEntries == CatalogOf({ "critical", "high", "medium" })

FailedToConnect(k) == call.status[k] = 0

\* more than 80% of the scored path checks failed to connect
MostScoredFailed ==
  10 * Cardinality({ k \in ScoredEntries : FailedToConnect(k) }) > 8 * Cardinality(ScoredEntries)

HasErrorFinding == \E i \in DOMAIN ret.value.checks : ret.value.checks[i] = "error"

\* C21: the probe emits its error Finding if and only if more than 80% of the checks of
\* the critical, high and medium paths failed to connect, and when it is emitted it is
\* the first Finding of the result.
C21_UnreliableIffMostScoredFailed ==
  Scanned =>
    /\ HasErrorFinding <=> MostScoredFailed
    /\ HasErrorFinding => ret.value.checks[1] = "error"


----------------------------------------------------------------------------
(* C22: checkPath resolves once, with a classified status *)

Quiescent ==
  /\ ret.timer # "armed"
  /\ ret.req \notin { "sent", "destroyed" }
  /\ ret.res \notin { "flowing", "aborted", "ended", "errored", "destroyed" }

\* C22: for every order of the events of one path request checkPath resolves exactly once
\* (never twice, and it has resolved when no event is left), and for a response with a
\* 2xx status it resolves with 0 or with the status the classifier gives for the status,
\* the body received and the path.
C22_ResolvesOnceClassified ==
  Checking =>
    /\ ret.resolves <= 1
    /\ ret.resolved <=> ret.resolves = 1
    /\ ~ret.resolved => ret.timer = "armed"
    /\ Quiescent => ret.resolved
    /\ (ret.resolved /\ Is2xx(call.statusCode)) =>
          \/ ret.value = 0
          \/ ret.value = validateResponse(call.statusCode, ret.body, call.pathStr)

\* a 200 response to /.env with an HTML body ended and closed after the request had
\* resolved once with 404
C22_Witness ==
  /\ Checking
  /\ call.pathStr = "/.env" /\ call.statusCode = 200
  /\ ret.body = << "<html>", "text" >>
  /\ ret.res = "closed"
  /\ ret.by = "end"
  /\ ret.resolves = 1
  /\ ret.value = 404


----------------------------------------------------------------------------
(* C23: the connection budget *)

\* the requests issued whose connection has not closed
InFlight == ret.pending + ret.lingering

\* C23: at any moment at most batchSize path requests are in flight against the target:
\* no request of a later batch is issued while a request of an earlier batch still holds
\* its connection.
C23_AtMostBatchSizeInFlight ==
  (call.fn = "batches") => InFlight <= BatchSize(call.options)


----------------------------------------------------------------------------
(* C24: the header fetch follows at most 5 redirects *)

HeaderFetch == Fetching /\ call.fetcher = "headers" /\ ~call.loops

\* the fetch has settled in a response callback
SettledByResponse == ~ret.outstanding /\ ret.value \in { "final response", "Too many redirects" }

\* C24: for a chain of n consecutive redirect responses the header fetch returns the
\* headers of the final response if n <= 5 and fails with 'Too many redirects' if n > 5,
\* and it never issues more than 6 requests.
C24_AtMostFiveRedirects ==
  (Fetching /\ call.fetcher = "headers") =>
    /\ ret.requests <= 6
    /\ (~call.loops /\ SettledByResponse) =>
         IF call.redirects <= 5
         THEN ret.state = "resolved" /\ ret.value = "final response"
                /\ ret.requests = call.redirects + 1
         ELSE ret.state = "rejected" /\ ret.value = "Too many redirects"

\* a chain of 5 redirects was followed to its final response, with 6 requests
C24_Witness ==
  /\ HeaderFetch
  /\ call.redirects = 5
  /\ ret.requests = 6
  /\ ret.state = "resolved" /\ ret.value = "final response"


----------------------------------------------------------------------------
(* C28: redirect loops *)

\* C28: against a server that answers every request with a redirect, every
\* redirect-following fetch issues a bounded number of requests and then settles: no
\* fetch is still following redirects after MaxFetches requests.
C28_RedirectLoopTerminates ==
  (Fetching /\ call.loops /\ ret.requests = MaxFetches) => ~ret.outstanding


----------------------------------------------------------------------------
\* the credit of the policy table for each scored check, in halves; legacy tells
\* whether a Feature-Policy header stands for Permissions-Policy
PolicyCredits(h, legacy) ==
  (CASE h.hsts = "" -> 0
     [] MaxAgeOf(h.hsts) >= 31536000 /\ IncludesSubs(h.hsts) /\ Preload(h.hsts) -> 8
     [] MaxAgeOf(h.hsts) >= 31536000 -> 6
     [] MaxAgeOf(h.hsts) > 0 -> 2
     [] OTHER -> 0)
  + (IF IsNosniff(h.xcto) THEN 6 ELSE 0)
  + (CASE DeniesFraming(h.xfo) -> 4
       [] h.xfo # "" -> 2
       [] HasFrameAncestors(h.csp) -> 4
       [] OTHER -> 0)
  + (CASE IsGoodPolicy(h.rp) -> 4 [] h.rp # "" -> 2 [] OTHER -> 0)
  + (CASE h.csp = "" -> 0 [] HasDefaultSrc(h.csp) /\ ~HasUnsafe(h.csp) -> 4 [] OTHER -> 2)
  + (IF h.pp # "" \/ (legacy /\ h.fp # "") THEN 2 ELSE 0)
  + (IF h.coop # "" THEN 1 ELSE 0)
  + (IF h.corp # "" THEN 1 ELSE 0)

\* full HSTS, nosniff, X-Frame-Options DENY, Referrer-Policy strict-origin-when-cross-origin,
\* no other security header
ExampleHeaders(h) ==
  /\ h.hsts = "max-age=31536000; includeSubDomains; preload"
  /\ h.xcto = "nosniff" /\ h.xfo = "DENY" /\ h.rp = "strict-origin-when-cross-origin"
  /\ h.csp = "" /\ h.pp = "" /\ h.fp = "" /\ h.coop = "" /\ h.corp = ""

HeadersScanned == call.fn = "scanHeaders" /\ ret.fn = "scanHeaders"

\* C25 (as stated): for any response headers scanHeaders returns maxScore 15 and a score
\* equal to the sum of the credits of the policy table (Permissions-Policy 1 if that header is
\* present, else 0), and the example headers score 11 of 15.
C25_ScoreIsSumOfCredits ==
  HeadersScanned =>
    /\ ret.value.maxScore = 30
    /\ ret.value.score = PolicyCredits(call.headers, FALSE)
    /\ ExampleHeaders(call.headers) => ret.value.score = 22

\* C25 (amended): the same with the Permissions-Policy credit earned by a Permissions-Policy
\* header or, when that is absent, by a Feature-Policy header.
C25_ScoreIsSumOfCreditsWithLegacy ==
  HeadersScanned =>
    /\ ret.value.maxScore = 30
    /\ ret.value.score = PolicyCredits(call.headers, TRUE)
    /\ ExampleHeaders(call.headers) => ret.value.score = 22

C25_Witness ==
  /\ HeadersScanned
  /\ ExampleHeaders(call.headers)
  /\ ret.value.score = 22 /\ ret.value.maxScore = 30


----------------------------------------------------------------------------
\* the positions of the Findings of a name
FindingsNamed(checks, name) == { k \in DOMAIN checks : checks[k].name = name }

WithoutLeaks(h) == [h EXCEPT !.server = "", !.powered = ""]

\* the leak Findings are there exactly for the leaking headers, with the status given, and the
\* score and maxScore are those of the same response without the two headers
LeaksReportedAs(status) ==
  LET h == call.headers
      checks == ret.value.checks
      serverAt == FindingsNamed(checks, "Server Header")
      poweredAt == FindingsNamed(checks, "X-Powered-By")
  IN /\ Cardinality(serverAt) = (IF HasDigit(h.server) THEN 1 ELSE 0)
     /\ Cardinality(poweredAt) = (IF h.powered # "" THEN 1 ELSE 0)
     /\ \A k \in serverAt \cup poweredAt : checks[k].status = status
     /\ ret.value.score = scanHeaders(WithoutLeaks(h)).score
     /\ ret.value.maxScore = scanHeaders(WithoutLeaks(h)).maxScore

\* C26 (as stated): a Server header leaking a version and an X-Powered-By header are reported
\* as Findings of status info, and change neither score nor maxScore.
C26_LeaksAreInfo == HeadersScanned => LeaksReportedAs("info")

\* C26 (amended): they are reported as Findings of status warn, and change neither score nor
\* maxScore.
C26_LeaksAreWarnings == HeadersScanned => LeaksReportedAs("warn")

C26_Witness ==
  /\ HeadersScanned
  /\ HasDigit(call.headers.server) /\ call.headers.powered # ""
  /\ FindingsNamed(ret.value.checks, "Server Header") # {}
  /\ FindingsNamed(ret.value.checks, "X-Powered-By") # {}
  /\ ret.value.score > 0


----------------------------------------------------------------------------
\* the names of the eight scored checks of scanHeaders
ScoredCheckNames ==
  { "Strict-Transport-Security", "X-Content-Type-Options", "X-Frame-Options", "Referrer-Policy",
    "Content-Security-Policy", "Permissions-Policy", "Cross-Origin-Opener-Policy",
    "Cross-Origin-Resource-Policy" }

\* an HSTS header whose max-age is 0 or cannot be read
HstsWithoutMaxAge(h) == h.hsts # "" /\ MaxAgeOf(h.hsts) = 0

\* C30: for any response headers scanHeaders emits exactly one Finding for each of its eight
\* scored checks, also for a check earning no credit such as HSTS with max-age 0 or without a
\* readable max-age.
C30_OneFindingPerScoredCheck ==
  HeadersScanned =>
    \A name \in ScoredCheckNames : Cardinality(FindingsNamed(ret.value.checks, name)) = 1

\* with the HSTS case left out the other seven checks, and HSTS otherwise, emit one Finding
C30_OneFindingUnlessHstsWithoutMaxAge ==
  HeadersScanned =>
    \A name \in ScoredCheckNames :
      Cardinality(FindingsNamed(ret.value.checks, name)) =
        (IF name = "Strict-Transport-Security" /\ HstsWithoutMaxAge(call.headers) THEN 0 ELSE 1)


----------------------------------------------------------------------------
\* scanSSL has returned after getCertificateInfo rejected
HandshakeFailed == ret.fn = "scanSSL" /\ ret.state = "returned" /\ ret.socket = "destroyed"
                   /\ ret.err # NoTlsError /\ ret.err.message # "Invalid time value"

CertificateCode(err) == err.code \in { "CERT_HAS_EXPIRED", "ERR_TLS_CERT_ALTNAME_INVALID" }

----------------------------------------------------------------------------
\* the vulnerable parameters among the first n tests, in the order of the parameter list
RECURSIVE VulnerableInListOrder(_, _)
VulnerableInListOrder(tests, n) ==
  IF n = 0 THEN << >>
  ELSE VulnerableInListOrder(tests, n - 1)
         \o (IF tests[n].vulnerable THEN << tests[n].param >> ELSE << >>)

\* the Findings that the responses of the tests give, in the order of the parameter list
FindingsInListOrder(tests) ==
  LET vulnerable == VulnerableInListOrder(tests, Len(tests))
  IN IF vulnerable = << >>
     THEN << Finding("Open Redirects", "pass") >>
     ELSE << Finding("Open Redirects", "fail") >>
          \o [k \in DOMAIN vulnerable |-> Finding(vulnerable[k], "fail")]

\* C29: the ordered list of Findings of scanRedirects is determined by the per-parameter
\* responses alone: whatever the order in which the requests complete, the Findings are those
\* of the responses in the order of the parameter list.
C29_FindingsInParameterOrder ==
  (ret.fn = "scanRedirects" /\ ret.result # NoRedirectResult) =>
    ret.result.checks = FindingsInListOrder(ret.tests)

\* the same Findings in some order: the Findings after the first are a permutation
C29_FindingsUpToOrder ==
  (ret.fn = "scanRedirects" /\ ret.result # NoRedirectResult) =>
    LET expected == FindingsInListOrder(ret.tests)
    IN /\ Len(ret.result.checks) = Len(expected)
       /\ ret.result.checks[1] = expected[1]
       /\ { ret.result.checks[k] : k \in DOMAIN ret.result.checks }
            = { expected[k] : k \in DOMAIN expected }

====
